---- MODULE Spec2Model ----
(***************************************************************************)
(* Model of the optimal-location finder of business-locator.              *)
(*                                                                         *)
(*   OptimalLocationService                                                *)
(*     the search orchestrator: grid generation, the per-point loop with   *)
(*     its cooperative stop flag, admission, scoring, callbacks, result.   *)
(*   CompetitorDetectionService  (components/AnalysisResults.tsx)          *)
(*     the directory adapter: TTL cache, multi-phase search, validation,   *)
(*     deduplication, search quality.                                      *)
(*                                                                         *)
(* Spec is the orchestrator, with the adapter call of a grid point as one  *)
(* query and its answer; SpecWide adds the runs over a grid of more than   *)
(* 200 points and over degenerate grids; SpecAdapter is                    *)
(* findCompetitorsNearLocation, one strategy call of the directory at a    *)
(* time; SpecCache is a sequence of its calls over time.  SpecGrid,        *)
(* SpecScore and SpecAnalysis apply the grid generators, the scoring of a  *)
(* location and analysisService.analyzeLocation to a range of arguments.   *)
(* SpecLive is the orchestrator under the fairness of the event loop;      *)
(* SpecQuality applies the result assembly of the adapter to a range of    *)
(* merged hits; SpecBatch is batchFindCompetitors of the hexagonal search  *)
(* (services/optimizedLocationService.ts), one promise at a time.          *)
(*                                                                         *)
(* Units.  Lengths are metres on a local plane (the code uses km and       *)
(* degrees), times are milliseconds, scores are the code's 0..100 points.  *)
(* Fractional scores are carried in thousandths of a point.                *)
(***************************************************************************)
EXTENDS Integers, Sequences, FiniteSets, TLC

(***************************************************************************)
(* Bounds of the model                                                     *)
(***************************************************************************)
MaxPoints == 4
MaxStops == 2
MaxTerms == 1
MaxHits == 1
MaxSearches == 1
MaxCalls == 2
MaxTicks == 2

(***************************************************************************)
(* Program constants                                                       *)
(***************************************************************************)
Infinity == 100000000
CACHE_TTL == 1800000
TOP_N == 20
MIN_QUERY_RADIUS == 3000
KEY_CELL == 11
QUERY_MS == 200
DELAY_SLOW_MS == 100
DELAY_FAST_MS == 50
DELAY_EVERY == 5
FAST_AFTER == 10
DEFAULT_RADIUS == 3000
EXTENDED_MAX == 15000
MULTIPASS_BELOW == 3
GRID_BELOW == 2
GRID_SIZE == 4
GRID_DELAY_MS == 50

Min(a, b) == IF a <= b THEN a ELSE b
Max(a, b) == IF a >= b THEN a ELSE b

\* Math.round on a value given in thousandths: round half up.
RoundMilli(m) == (m + 500) \div 1000

SeqToSet(s) == { s[k] : k \in 1..Len(s) }

(***************************************************************************)
(* State                                                                   *)
(***************************************************************************)
VARIABLES
  \* OptimalLocationService
  pc,                    \* "idle" | "loop" | "query" | "delay" | "done" | "grid" | "scored" | "analyzed"
  isStopRequested,       \* the cooperative cancellation flag
  run,                   \* the arguments of findOptimalLocations
  gridPoints,            \* const gridPoints
  i,                     \* the loop index (0-based, as in the code)
  optimalLocations,      \* const optimalLocations (the candidate pool)
  totalRequests, cacheHits, totalPrimaryResults, totalFallbackResults,
  startTime,
  result,                \* the OptimalLocationResult returned, or NoResult
  \* CompetitorDetectionService
  cache,                 \* Map<string, {data, timestamp}>
  now,                   \* Date.now()
  \* what the environment observed (not program state)
  events,                \* directory queries issued and callbacks delivered, in order
  foundLog,              \* the arguments of onLocationFound, in order
  lastResult,            \* the competitor result of the last processed point
  processed,             \* grid points processed so far
  missCount, hitCount,   \* adapter calls of the run answered by the directory / the cache
  stopCalls, stoppedBefore, firstStopAt, stoppedAfter,
  callbackThrew,         \* a call of onLocationFound ended with an exception
  \* one call of findCompetitorsNearLocation at a time
  apc,                   \* "idle" | "search": awaiting the strategy call `step`
  call,                  \* the arguments of the current (or last) call
  step,                  \* the strategy call awaited: its phase and position
  allResults,            \* const allResults, in insertion order
  searchStats,           \* const searchStats
  gridResults,           \* const results of performGridSearch
  returned,              \* the object the last call returned, or NoResult
  nextRef,               \* the identity the next object created gets
  maps,                  \* the Maps script: "undefined" | "no_places" | "ready"
  \* what the environment observed of the adapter (not program state)
  calls, ticks,          \* calls made, clock advances made
  issued,                \* strategy calls issued by the current call
  failed,                \* a strategy call of the current call failed
  endedBy,               \* how the last call ended: "cache" | "search" | "error"
  lookup,                \* the cache entry the last call looked up: found, age
  firstFound,            \* place_id -> tag of the first strategy that returned it
  firstAdmitted,         \* place_id -> tag of the first strategy whose hit was merged
  overlap,               \* a strategy returned a place that was merged already
  completed,             \* cache key -> the last completed search: time, object
  \* OptimalLocationSearch.batchFindCompetitors
  batchPromises,         \* const batchPromises: point, settled or not, competitors
  competitorMap          \* const results: Map of "lat,lng" -> competitors

adapterVars == <<apc, call, step, allResults, searchStats, gridResults, returned,
                 nextRef, maps>>
adapterGhosts == <<calls, ticks, issued, failed, endedBy, lookup, firstFound,
                   firstAdmitted, overlap, completed>>

orchVars == <<pc, isStopRequested, run, gridPoints, i, optimalLocations, totalRequests,
              cacheHits, totalPrimaryResults, totalFallbackResults, startTime, result>>
ghostVars == <<events, foundLog, lastResult, processed, missCount, hitCount,
               stopCalls, stoppedBefore, firstStopAt, stoppedAfter, callbackThrew>>

NoResult == [none |-> TRUE]
NoRun == [none |-> TRUE]

(***************************************************************************)
(* Geometry                                                                *)
(***************************************************************************)
\* Metres per degree of latitude on the 6371 km sphere of calculateDistance,
\* and the 111 km per degree generateGridPoints assumes (both multiples of 15:
\* their ratio is taken in lowest terms, 7413 / 7400, to stay within 32 bits).
EARTH_M_PER_DEG == 111195
GRID_M_PER_DEG == 111000

\* calculateDistance, squared (Haversine, on the local plane).
DistanceSq(p1, p2) ==
  (p1.lat - p2.lat) * (p1.lat - p2.lat) + (p1.lng - p2.lng) * (p1.lng - p2.lng)

WithinAnyRadius(dsq, radius) == TRUE

\* distance <= radius, for a distance given by its square.
WithinRadius(dsq, radius) == radius >= 0 /\ dsq <= radius * radius

\* Math.sqrt, rounded down to a whole metre (of a square below 2^31).
RECURSIVE SqrtBetween(_, _, _)
SqrtBetween(n, lo, hi) ==
  IF lo >= hi THEN lo
  ELSE LET mid == (lo + hi + 1) \div 2
       IN IF mid * mid <= n THEN SqrtBetween(n, mid, hi)
          ELSE SqrtBetween(n, lo, mid - 1)

\* calculateDistance, in whole metres.
calculateDistance(point1, point2) == SqrtBetween(DistanceSq(point1, point2), 0, 46340)

\* extractCoordinates: the coordinates of a place, NoCoords (null) for a place
\* without a usable geometry.
NoCoords == [none |-> TRUE]
extractCoordinates(place) == place.geometry

\* generateGridPoints: a density x density lattice spanning +-radius/111 degrees,
\* row by row, keeping the points within radius of the center.  The loops
\* `for (i = 0; i < density; i++)` run no iteration for a density of 0 or less.
generateGridPoints(center, radius, density) ==
  LET off(k) == ((2 * k - density + 1) * radius * (EARTH_M_PER_DEG \div 15))
                  \div (density * (GRID_M_PER_DEG \div 15))
      point(n) == [lat |-> center.lat + off((n - 1) \div density),
                   lng |-> center.lng + off((n - 1) % density)]
      lattice == [n \in 1..(IF density > 0 THEN density * density ELSE 0) |-> point(n)]
  IN SelectSeq(lattice, LAMBDA p : WithinRadius(DistanceSq(center, p), radius))

\* Math.cos and Math.sin of an angle of a whole number of tens of degrees, in
\* thousandths.
COS_TABLE == <<1000, 985, 940, 866, 766, 643, 500, 342, 174, 0>>

CosMilli(degrees) ==
  LET a == degrees % 360
  IN IF a <= 90 THEN COS_TABLE[a \div 10 + 1]
     ELSE IF a <= 180 THEN 0 - COS_TABLE[(180 - a) \div 10 + 1]
     ELSE IF a <= 270 THEN 0 - COS_TABLE[(a - 180) \div 10 + 1]
     ELSE COS_TABLE[(360 - a) \div 10 + 1]

SinMilli(degrees) == CosMilli(degrees + 270)

\* Math.ceil(density / 2)
Rings(density) == (density + 1) \div 2

\* generateHexagonalPoints: the center, then ring after ring of 6 x ring points
\* at radius / rings x ring (111 km per degree), keeping the points within
\* radius of the center.
generateHexagonalPoints(center, radius, density) ==
  LET rings == Rings(density)
      scaled(v) == (v * (EARTH_M_PER_DEG \div 15)) \div (GRID_M_PER_DEG \div 15)
      ringPoint(ring, k) ==
        LET ringRadius == (radius * ring) \div rings
            angle == (60 * k) \div ring
        IN [lat |-> center.lat + scaled((ringRadius * CosMilli(angle)) \div 1000),
            lng |-> center.lng + scaled((ringRadius * SinMilli(angle)) \div 1000)]
      ringOf(ring) == [n \in 1..(6 * ring) |-> ringPoint(ring, n - 1)]
      upTo[ring \in 0..Max(rings, 0)] ==
        IF ring = 0 THEN <<center>> ELSE upTo[ring - 1] \o ringOf(ring)
      points == upTo[Max(rings, 0)]
  IN SelectSeq(points, LAMBDA p : WithinRadius(DistanceSq(center, p), radius))

\* Number.prototype.toFixed(4) of a coordinate: four decimals of a degree are
\* KEY_CELL metres; the model's coordinates are positive.
toFixed4(v) == (2 * v + KEY_CELL) \div (2 * KEY_CELL)

\* const cacheKey = `${lat.toFixed(4)}-${lng.toFixed(4)}-${businessType}-${radiusKm}`
CacheKey(location, businessType, radius) ==
  <<toFixed4(location.lat), toFixed4(location.lng), businessType, radius>>

(***************************************************************************)
(* CompetitorDetectionService: cache and result assembly                   *)
(***************************************************************************)
CACHE_SWEEP_SIZE == 50

\* getCachedResult: the value returned (NoResult for null) ...
getCachedResult(key) ==
  IF key \in DOMAIN cache /\ now - cache[key].timestamp < CACHE_TTL
  THEN cache[key].data
  ELSE NoResult

CacheKeptAfterGet(key) == cache

\* ... and the cache it leaves: an entry that is not fresh is deleted.
CacheAfterGet(key) ==
  IF key \in DOMAIN cache /\ ~(now - cache[key].timestamp < CACHE_TTL)
  THEN [k \in DOMAIN cache \ {key} |-> cache[k]]
  ELSE cache

setCachedResultDropped(c, key, data, t) == c

\* setCachedResult on cache c at time t: past 50 entries the expired ones are
\* swept, then the entry is stored with the current time.
setCachedResult(c, key, data, t) ==
  LET kept == IF Cardinality(DOMAIN c) > CACHE_SWEEP_SIZE
              THEN { k \in DOMAIN c : ~(t - c[k].timestamp > CACHE_TTL) }
              ELSE DOMAIN c
  IN [k \in kept \cup {key} |->
        IF k = key THEN [data |-> data, timestamp |-> t] ELSE c[k]]

\* Array.prototype.sort((a, b) => a.distance - b.distance): a stable sort.
RECURSIVE InsertByDistance(_, _)
InsertByDistance(x, s) ==
  IF s = <<>> THEN <<x>>
  ELSE IF x.distance < s[1].distance THEN <<x>> \o s
  ELSE <<s[1]>> \o InsertByDistance(x, Tail(s))

RECURSIVE SortByDistance(_)
SortByDistance(s) ==
  IF s = <<>> THEN <<>>
  ELSE InsertByDistance(s[Len(s)], SortByDistance(SubSeq(s, 1, Len(s) - 1)))

\* processCompetitors: hits without coordinates and hits beyond maxDistance are
\* dropped, the rest sorted by ascending distance.
processCompetitors(hits, center, maxDistance) ==
  LET located == SelectSeq(hits, LAMBDA h : extractCoordinates(h) # NoCoords)
      mapped == [k \in 1..Len(located) |->
                   [place_id |-> located[k].place_id,
                    distance |-> calculateDistance(center, extractCoordinates(located[k])),
                    rating |-> located[k].rating,
                    searchMethod |-> located[k].searchMethod]]
      near == SelectSeq(mapped, LAMBDA c : c.distance <= maxDistance)
  IN SortByDistance(near)

QualityFromBase(competitors, totalFound, stats) == 40

QualityOfCount(competitors, totalFound, stats) ==
  IF totalFound = 0 THEN 0 ELSE Min(100, 40 + 20 * Len(competitors))

\* calculateEnhancedSearchQuality
calculateEnhancedSearchQuality(competitors, totalFound, stats) ==
  IF totalFound = 0 THEN 0
  ELSE
    LET n == Len(competitors)
        withRatings == Cardinality({ k \in 1..n : competitors[k].rating > 0 })
        uniqueMethods == Cardinality({ competitors[k].searchMethod : k \in 1..n })
        all == stats.primaryResults + stats.fallbackResults
        q == 40
             + (IF n > 0 THEN 20 ELSE 0)
             + (IF n > 2 THEN 15 ELSE 0)
             + (IF n > 5 THEN 10 ELSE 0)
             + (IF withRatings > 0 THEN Min(withRatings * 3, 15) ELSE 0)
             + (IF uniqueMethods > 1 THEN 5 ELSE 0)
             + (IF uniqueMethods > 2 THEN 5 ELSE 0)
             - (IF stats.fallbackResults * 10 > 7 * Max(1, all) THEN 10 ELSE 0)
    IN Min(Max(q, 0), 100)

\* The result object assembled at the end of the phases.
AssembleResult(hits, center, maxDistance, stats) ==
  LET competitors == processCompetitors(hits, center, maxDistance)
  IN [competitors |-> competitors,
      nearestDistance |-> IF Len(competitors) > 0 THEN competitors[1].distance
                          ELSE Infinity,
      totalCount |-> Len(competitors),
      searchQuality |-> calculateEnhancedSearchQuality(competitors, Len(hits), stats),
      searchStats |-> stats]

\* The result of the catch block of findCompetitorsNearLocation.
ErrorResult ==
  [competitors |-> <<>>, nearestDistance |-> Infinity, totalCount |-> 0,
   searchQuality |-> 0,
   searchStats |-> [primaryResults |-> 0, fallbackResults |-> 0,
                    totalSearches |-> 0, searchMethods |-> <<>>]]

\* const result = { ... } and the object literal of the catch block: a new
\* object, whose identity is ref.
NewObject(ref, value) == [ref |-> ref, value |-> value]

(***************************************************************************)
(* CompetitorDetectionService: business configurations                     *)
(* (the Arabic terms are transliterated; distances in metres)              *)
(***************************************************************************)
businessConfigs ==
  [pharmacy |->
     [searchTerms |-> <<"pharmacy", "drugstore", "cvs", "walgreens", "rite aid",
                        "saydaliyya", "dawa", "saydala", "pharmacie", "apotheke",
                        "farmacia", "chemist", "apothecary", "medical store",
                        "pharmacy store", "drug shop", "medicine store",
                        "medical pharmacy">>,
      placeTypes |-> <<"pharmacy", "drugstore">>,
      excludeTypes |-> {"hospital", "clinic", "doctor", "dental", "veterinary_care"},
      minDistance |-> 300, maxDistance |-> 10000,
      fallbackSearchTerms |-> <<"medicine", "medical", "health store", "prescription",
                                "pharmaceutical", "sihha", "tibb", "ilaj",
                                "dawaiyya", "tibbiyya">>,
      broadPlaceTypes |-> <<"health", "store", "establishment">>,
      requiresMultiPass |-> TRUE],
   restaurant |->
     [searchTerms |-> <<"restaurant", "dining", "mcdonalds", "burger king">>,
      placeTypes |-> <<"restaurant", "food", "meal_takeaway">>,
      excludeTypes |-> {"grocery_or_supermarket", "gas_station", "bar"},
      minDistance |-> 100, maxDistance |-> 3000,
      fallbackSearchTerms |-> <<"food", "eating", "cuisine">>,
      broadPlaceTypes |-> <<"establishment">>,
      requiresMultiPass |-> FALSE],
   coffee_shop |->
     [searchTerms |-> <<"coffee shop", "cafe", "starbucks", "dunkin">>,
      placeTypes |-> <<"cafe", "bakery">>,
      excludeTypes |-> {"restaurant", "bar", "night_club"},
      minDistance |-> 200, maxDistance |-> 2000,
      fallbackSearchTerms |-> <<"coffee", "espresso", "cappuccino">>,
      broadPlaceTypes |-> <<"establishment">>,
      requiresMultiPass |-> FALSE],
   gas_station |->
     [searchTerms |-> <<"gas station", "shell", "bp", "exxon">>,
      placeTypes |-> <<"gas_station">>,
      excludeTypes |-> {"car_repair", "car_dealer"},
      minDistance |-> 1000, maxDistance |-> 8000,
      fallbackSearchTerms |-> <<"fuel", "petrol", "gasoline">>,
      broadPlaceTypes |-> <<"establishment">>,
      requiresMultiPass |-> FALSE],
   grocery_store |->
     [searchTerms |-> <<"grocery store", "supermarket", "walmart", "kroger">>,
      placeTypes |-> <<"grocery_or_supermarket", "supermarket">>,
      excludeTypes |-> {"restaurant", "pharmacy", "gas_station"},
      minDistance |-> 800, maxDistance |-> 10000,
      fallbackSearchTerms |-> <<"groceries", "food store", "market">>,
      broadPlaceTypes |-> <<"establishment">>,
      requiresMultiPass |-> FALSE]]

\* getBusinessConfig: an unknown business type gets the generic configuration.
getBusinessConfig(businessType) ==
  IF businessType \in DOMAIN businessConfigs
  THEN businessConfigs[businessType]
  ELSE [searchTerms |-> <<businessType>>,
        placeTypes |-> <<"establishment">>,
        excludeTypes |-> {},
        minDistance |-> 500, maxDistance |-> 5000,
        fallbackSearchTerms |-> <<businessType>>,
        broadPlaceTypes |-> <<"establishment">>,
        requiresMultiPass |-> FALSE]

Take(s, n) == SubSeq(s, 1, Min(n, Len(s)))

\* The searchMethod tags: `place_type:${t}`, `text:${t}`, `extended_${t}`,
\* `fallback:${t}` and 'grid_search', as pairs.
Method(kind, arg) == [kind |-> kind, arg |-> arg]

MethodsOf(kind, list) ==
  [k \in 1..Len(Take(list, MaxTerms)) |-> Method(kind, list[k])]

\* The strategy calls of phase 1 and of phase 2, in the order they are issued
\* (each list of the configuration cut to its first MaxTerms entries).
PrimaryMethods(cfg) ==
  MethodsOf("place_type", cfg.placeTypes) \o MethodsOf("text", cfg.searchTerms)

FallbackMethods(cfg) ==
  MethodsOf("extended", cfg.broadPlaceTypes) \o MethodsOf("fallback", cfg.fallbackSearchTerms)

\* A place as the directory returns it: name is the set of words and phrases
\* its lower-cased name is made of, geometry its coordinates or NoCoords,
\* rating 0 is no rating.
Place(id, name, types, geometry, rating) ==
  [place_id |-> id, name |-> name, types |-> types, geometry |-> geometry,
   rating |-> rating]

\* r.searchMethod = tag
Tagged(place, method) == place @@ [searchMethod |-> method]

(***************************************************************************)
(* OptimalLocationService: admission and scoring                           *)
(***************************************************************************)
PHARMACY_MIN_QUALITY == 30
DEFAULT_MIN_QUALITY == 50
PHARMACY_MIN_OPPORTUNITY == 30
DEFAULT_MIN_OPPORTUNITY == 40
TOLERANCE_TENTHS == 8

\* const minDistance = business.minRadius || targetRadius
\* (a minRadius of 0 stands for an absent one as well: both are falsy)
MinDistance(business, targetRadius) ==
  IF business.minRadius # 0 THEN business.minRadius ELSE targetRadius

\* const minQuality = business.id === 'pharmacy' ? 30 : 50
MinQuality(business) ==
  IF business.id = "pharmacy" THEN PHARMACY_MIN_QUALITY ELSE DEFAULT_MIN_QUALITY

isLocationOptimalNoTolerance(res, business, targetRadius) ==
  /\ res.nearestDistance >= MinDistance(business, targetRadius)
  /\ res.searchQuality >= MinQuality(business)

\* isLocationOptimalEnhanced
isLocationOptimalEnhanced(res, business, targetRadius) ==
  LET minDistance == MinDistance(business, targetRadius)
      hasMinDistance == res.nearestDistance * 10 >= minDistance * TOLERANCE_TENTHS
      hasMinQuality == res.searchQuality >= MinQuality(business)
  IN hasMinDistance /\ hasMinQuality

\* const minOpportunityScore = business.id === 'pharmacy' ? 30 : 40
MinOpportunityScore(business) ==
  IF business.id = "pharmacy" THEN PHARMACY_MIN_OPPORTUNITY
  ELSE DEFAULT_MIN_OPPORTUNITY

\* getExpectedCompetitorDensity, in competitors per 1000 km2: whatever the
\* location and the business, baseDensities.pharmacy.
PHARMACY_DENSITY == 150
getExpectedCompetitorDensity(location) == PHARMACY_DENSITY

\* Math.PI as a fraction.
PI_NUM == 355
PI_DEN == 113

\* expectedCompetitors = PI * analysisRadius^2 * expectedDensity, in millionths.
ExpectedCompetitorsMicro(location, analysisRadius) ==
  (((((analysisRadius * analysisRadius) \div 100)
       * getExpectedCompetitorDensity(location)) \div 10) \div PI_DEN) * PI_NUM

\* Math.min(100, (totalCount / expectedCompetitors) * 100), in thousandths.
MarketSaturationMilli(location, totalCount, analysisRadius) ==
  LET expected == ExpectedCompetitorsMicro(location, analysisRadius)
  IN IF totalCount = 0 THEN 0
     ELSE IF totalCount * 1000000 >= expected THEN 100000
     ELSE (totalCount * 100000000) \div (expected \div 1000)

\* Math.min(100, (nearestDistance / (analysisRadius / 1.5)) * 100), in thousandths.
CoverageMilli(nearestDistance, analysisRadius) ==
  IF nearestDistance = Infinity \/ 3 * nearestDistance >= 2 * analysisRadius
  THEN 100000
  ELSE (150000 * nearestDistance) \div analysisRadius

DistanceScoreOfFive(nearestDistance) ==
  IF nearestDistance >= 5000 THEN 100000 ELSE (100 * nearestDistance) \div 5

\* Math.min(100, (nearestDistance / 3) * 100), in thousandths.
DistanceScoreMilli(nearestDistance) ==
  IF nearestDistance >= 3000 THEN 100000 ELSE (100 * nearestDistance) \div 3

\* analyzeLocationEnhanced
analyzeLocationEnhanced(location, competitorResult, targetRadius, analysisRadius) ==
  LET coverageScore == CoverageMilli(competitorResult.nearestDistance, analysisRadius)
      marketSaturation ==
        MarketSaturationMilli(location, competitorResult.totalCount, analysisRadius)
      distanceScore == DistanceScoreMilli(competitorResult.nearestDistance)
      saturationScore == Max(0, 100000 - marketSaturation)
      qualityScore == competitorResult.searchQuality * 1000
      opportunityScore ==
        (4 * distanceScore + 3 * saturationScore + 2 * qualityScore + coverageScore
           + 5000) \div 10000
  IN [location |-> location,
      nearestCompetitorDistance |-> competitorResult.nearestDistance,
      coverageScore |-> RoundMilli(coverageScore),
      totalCompetitorsInRadius |-> competitorResult.totalCount,
      marketSaturation |-> RoundMilli(marketSaturation),
      opportunityScore |-> opportunityScore,
      competitors |-> competitorResult.competitors]

(***************************************************************************)
(* OptimalLocationService.findOptimalLocations                             *)
(***************************************************************************)
NaN == -1

\* optimalLocations.sort((a, b) => b.opportunityScore - a.opportunityScore)
RECURSIVE InsertByScore(_, _)
InsertByScore(x, s) ==
  IF s = <<>> THEN <<x>>
  ELSE IF x.opportunityScore > s[1].opportunityScore THEN <<x>> \o s
  ELSE <<s[1]>> \o InsertByScore(x, Tail(s))

KeepOrder(s) == s

RECURSIVE SortByScore(_)
SortByScore(s) ==
  IF s = <<>> THEN <<>>
  ELSE InsertByScore(s[Len(s)], SortByScore(SubSeq(s, 1, Len(s) - 1)))

RECURSIVE SumCompetitors(_)
SumCompetitors(s) ==
  IF s = <<>> THEN 0 ELSE s[1].totalCompetitorsInRadius + SumCompetitors(Tail(s))

TruncPercent(x, y) == (100 * x) \div y

\* Math.round(x / y * 100) for x >= 0, y > 0
RoundPercent(x, y) == (200 * x + y) \div (2 * y)

\* The business profiles a caller passes (data/businessCategories.ts); the
\* interface leaves minRadius optional, 0 stands for a profile without one.
Businesses ==
  { [id |-> "pharmacy", minRadius |-> 300],
    [id |-> "laundry", minRadius |-> 500],
    [id |-> "kiosk", minRadius |-> 0] }

\* The calls of findOptimalLocations explored: a pharmacy search over a few
\* metres, whose grid points share cache keys, and two searches over 3 km;
\* grids of at most MaxPoints points.
Densities == 1..3

RunInputs ==
  LET all ==
        { [center |-> [lat |-> 1001, lng |-> 1005], business |-> b,
           analysisRadius |-> 8, targetRadius |-> 1500, gridDensity |-> d]
            : b \in { x \in Businesses : x.id = "pharmacy" }, d \in Densities }
        \cup
        { [center |-> [lat |-> 5000, lng |-> 5000], business |-> b,
           analysisRadius |-> 3000, targetRadius |-> 1500, gridDensity |-> d]
            : b \in { x \in Businesses : x.id # "pharmacy" }, d \in Densities }
  IN { r \in all :
         Len(generateGridPoints(r.center, r.analysisRadius, r.gridDensity)) <= MaxPoints }

\* The query radius: Math.max(analysisRadius, 3)
QueryRadius == Max(run.analysisRadius, MIN_QUERY_RADIUS)

SamePoint(k) == k

\* i++ of the loop over the grid points.
NextPoint(k) == k + 1

\* The loop condition i < gridPoints.length has become false.
LoopEnds == i >= Len(gridPoints)

LoopNeverStops == FALSE

\* if (this.isStopRequested) break
LoopStops == isStopRequested

StopFlagKeptOnEntry == isStopRequested

\* this.isStopRequested = false, on entry
StopFlagOnEntry == FALSE

\* this.isStopRequested = true, in stop()
StopFlagOnStop == TRUE

\* pointsAnalyzed: gridPoints.length
PointsAnalyzed == Len(gridPoints)

\* totalRequests++ after every adapter call that returned
RequestsAfterCall(fromCache) == totalRequests + 1

\* cacheHits is declared and reported, and never assigned again
CacheHitsAfterCall(fromCache) == cacheHits

DiscoveredOnAdmission(admitted, accepted, locationAnalysis) ==
  IF admitted THEN <<locationAnalysis>> ELSE <<>>

\* The calls of onLocationFound made for a point: one when it is pushed.
Discovered(admitted, accepted, locationAnalysis) ==
  IF accepted THEN <<locationAnalysis>> ELSE <<>>

\* An exception of onLocationFound (line 131) is raised inside the try block of
\* the loop body: the catch of line 142 logs it and the iteration goes on with
\* the progress callback.
ThrowAbsorbed(accepted, throws) == accepted /\ throws

\* Lines 104-154: what follows the adapter call for grid point i.  The
\* discovery callback is the caller's code: it returns or throws.
AfterPoint(res, fromCache) ==
  LET point == gridPoints[i + 1]
      admitted == isLocationOptimalEnhanced(res, run.business, run.targetRadius)
      locationAnalysis ==
        analyzeLocationEnhanced(point, res, run.targetRadius, run.analysisRadius)
          @@ [searchQuality |-> res.searchQuality, searchStats |-> res.searchStats]
      accepted == admitted
                  /\ locationAnalysis.opportunityScore >= MinOpportunityScore(run.business)
      pool == IF accepted THEN Append(optimalLocations, locationAnalysis)
              ELSE optimalLocations
      found == Discovered(admitted, accepted, locationAnalysis)
      progress == RoundPercent(i + 1, Len(gridPoints))
  IN /\ totalRequests' = RequestsAfterCall(fromCache)
     /\ cacheHits' = CacheHitsAfterCall(fromCache)
     /\ totalPrimaryResults' = totalPrimaryResults + res.searchStats.primaryResults
     /\ totalFallbackResults' = totalFallbackResults + res.searchStats.fallbackResults
     /\ optimalLocations' = pool
     /\ foundLog' = foundLog \o found
     /\ events' = events
                  \o [k \in 1..Len(found) |-> [kind |-> "found", point |-> i + 1]]
                  \o <<[kind |-> "progress", point |-> i + 1,
                        progress |-> progress, found |-> Len(pool)]>>
     /\ lastResult' = res
     /\ processed' = processed + 1
     /\ \E throws \in BOOLEAN :
          callbackThrew' = (callbackThrew \/ ThrowAbsorbed(accepted, throws))
     /\ pc' = IF i % DELAY_EVERY = 0 THEN "delay" ELSE "loop"
     /\ i' = IF i % DELAY_EVERY = 0 THEN i ELSE NextPoint(i)
     /\ UNCHANGED <<isStopRequested, run, gridPoints, startTime, result>>

\* The results a search of the adapter can assemble for a point, as its callers
\* see them: from no hit, a hit 12 km away, a rated hit at 2.4 km, a rated hit at
\* 450 m, a hit at 100 m, five hits around 470 m.
SearchResults(businessType, point) ==
  LET cfg == getBusinessConfig(businessType)
      methods(hits) ==
        PrimaryMethods(cfg)
        \o (IF cfg.requiresMultiPass THEN FallbackMethods(cfg) ELSE <<>>)
        \o (IF businessType = "pharmacy" /\ Len(hits) < GRID_BELOW
            THEN <<Method("grid_search", "")>> ELSE <<>>)
      stats(hits, p, f) ==
        [primaryResults |-> p,
         fallbackResults |-> IF cfg.requiresMultiPass THEN f ELSE 0,
         totalSearches |-> Len(methods(hits)), searchMethods |-> methods(hits)]
      h(id, dist, rating) ==
        Tagged(Place(id, {businessType}, {cfg.placeTypes[1]},
                     [lat |-> point.lat + dist, lng |-> point.lng], rating),
               PrimaryMethods(cfg)[1])
      found(hits, p, f) == AssembleResult(hits, point, cfg.maxDistance, stats(hits, p, f))
  IN { found(<<>>, 0, 0),
       found(<<h(1, 12000, 0)>>, 1, 0),
       found(<<h(2, 2400, 45)>>, 1, 0),
       found(<<h(3, 450, 40)>>, 1, 1),
       found(<<h(4, 100, 0)>>, 2, 0),
       found(<<h(5, 455, 0), h(6, 460, 0), h(7, 470, 0), h(8, 480, 0), h(9, 490, 0)>>,
             5, 0) }

\* What the adapter can answer for one grid point on a cache miss: the error
\* result of its catch block, or the result of a search.
DirectoryOutcomes(businessType, point) ==
  {ErrorResult} \cup SearchResults(businessType, point)

\* A run over a grid of more than 200 points, and the degenerate runs: an
\* analysis radius of 0, a grid density of 0 and of -1.
WideRunInputs ==
  { [center |-> [lat |-> 5000, lng |-> 5000],
     business |-> [id |-> "laundry", minRadius |-> 500],
     analysisRadius |-> r[1], targetRadius |-> 1500, gridDensity |-> r[2]]
      : r \in { <<3000, 16>>, <<0, 2>>, <<3000, 0>>, <<3000, -1>> } }

\* The directory the wide runs are explored against: one rated laundry, found
\* by the first primary search wherever the query point is.
WORLD_PLACE == [lat |-> 5100, lng |-> 5050]

WorldResult(businessType, point) ==
  LET cfg == getBusinessConfig(businessType)
      methods == PrimaryMethods(cfg)
                 \o (IF cfg.requiresMultiPass THEN FallbackMethods(cfg) ELSE <<>>)
      stats == [primaryResults |-> 1, fallbackResults |-> 0,
                totalSearches |-> Len(methods), searchMethods |-> methods]
      hit == Tagged(Place(1, {businessType}, {cfg.placeTypes[1]}, WORLD_PLACE, 45),
                    PrimaryMethods(cfg)[1])
  IN AssembleResult(<<hit>>, point, cfg.maxDistance, stats)

\* The answers explored for grid point i of the current run.
Outcomes ==
  IF run \in WideRunInputs
  THEN {WorldResult(run.business.id, gridPoints[i + 1])}
  ELSE DirectoryOutcomes(run.business.id, gridPoints[i + 1])

\* The service after construction, before a call is made.
InitLoop ==
  /\ pc = "idle"
  /\ isStopRequested = FALSE
  /\ gridPoints = <<>>
  /\ i = 0
  /\ optimalLocations = <<>>
  /\ totalRequests = 0 /\ cacheHits = 0
  /\ totalPrimaryResults = 0 /\ totalFallbackResults = 0
  /\ startTime = 0
  /\ result = NoResult
  /\ cache = <<>>
  /\ batchPromises = <<>> /\ competitorMap = <<>>
  /\ now = 0
  /\ events = <<>> /\ foundLog = <<>> /\ lastResult = NoResult
  /\ processed = 0 /\ missCount = 0 /\ hitCount = 0
  /\ stopCalls = 0 /\ stoppedBefore = FALSE /\ firstStopAt = 0 /\ stoppedAfter = FALSE
  /\ callbackThrew = FALSE

InitOrchestrator ==
  /\ InitLoop
  /\ run = NoRun

NoCall == [none |-> TRUE]
NoStep == [none |-> TRUE]
NoLookup == [none |-> TRUE]
NoStats == [primaryResults |-> 0, fallbackResults |-> 0, totalSearches |-> 0,
            searchMethods |-> <<>>]
NoGridResults == [length |-> 0, first |-> <<>>]

\* The adapter before its first call.
InitAdapterVars ==
  /\ apc = "idle" /\ call = NoCall /\ step = NoStep
  /\ allResults = <<>> /\ searchStats = NoStats /\ gridResults = NoGridResults
  /\ returned = NoResult /\ nextRef = 1
  /\ calls = 0 /\ ticks = 0 /\ issued = 0 /\ failed = FALSE /\ endedBy = "none"
  /\ lookup = NoLookup /\ firstFound = <<>> /\ firstAdmitted = <<>>
  /\ overlap = FALSE
  /\ completed = <<>>

Init ==
  /\ InitOrchestrator
  /\ InitAdapterVars
  /\ maps = "ready"

\* stop(): callable whenever the run is not in the middle of a synchronous
\* stretch of code, that is before the run, while it awaits a directory query or
\* a delay, and after it returned.
Stop ==
  /\ pc \in {"idle", "query", "delay", "done"}
  /\ stopCalls < MaxStops
  /\ isStopRequested' = StopFlagOnStop
  /\ stopCalls' = stopCalls + 1
  /\ stoppedBefore' = (stoppedBefore \/ pc = "idle")
  /\ firstStopAt' = IF pc \in {"query", "delay"} /\ firstStopAt = 0 THEN i + 1
                    ELSE firstStopAt
  /\ stoppedAfter' = (stoppedAfter \/ pc = "done")
  /\ UNCHANGED <<pc, run, gridPoints, i, optimalLocations, totalRequests, cacheHits,
                 totalPrimaryResults, totalFallbackResults, startTime, result,
                 cache, now, events, foundLog, lastResult, processed, missCount,
                 hitCount, callbackThrew>>
  /\ UNCHANGED <<adapterVars, adapterGhosts, batchPromises, competitorMap>>

\* findOptimalLocations called with one of the inputs of `inputs`.
Begin(inputs) ==
  /\ pc = "idle"
  /\ \E r \in inputs :
       /\ run' = r
       /\ gridPoints' = generateGridPoints(r.center, r.analysisRadius, r.gridDensity)
  /\ isStopRequested' = StopFlagOnEntry
  /\ startTime' = now
  /\ i' = 0
  /\ optimalLocations' = <<>>
  /\ totalRequests' = 0 /\ cacheHits' = 0
  /\ totalPrimaryResults' = 0 /\ totalFallbackResults' = 0
  /\ pc' = "loop"
  /\ UNCHANGED <<result, cache, now>>
  /\ UNCHANGED ghostVars
  /\ UNCHANGED <<adapterVars, adapterGhosts, batchPromises, competitorMap>>

\* Lines 73-87: the call of findOptimalLocations up to the loop.
Start == Begin(RunInputs)

\* The adapter call for grid point i finds a fresh cache entry: it returns
\* without a directory query and the iteration goes on at once.
CacheHitPoint ==
  /\ pc = "loop" /\ ~LoopEnds /\ ~LoopStops
  /\ LET key == CacheKey(gridPoints[i + 1], run.business.id, QueryRadius)
     IN /\ getCachedResult(key) # NoResult
        /\ AfterPoint(getCachedResult(key), TRUE)
  /\ hitCount' = hitCount + 1
  /\ UNCHANGED <<cache, now, missCount, stopCalls, stoppedBefore, firstStopAt,
                 stoppedAfter>>
  /\ UNCHANGED <<adapterVars, adapterGhosts, batchPromises, competitorMap>>

\* The adapter call for grid point i misses the cache (an expired entry is
\* deleted) and the directory is queried: the run awaits the answer.
IssueQuery ==
  /\ pc = "loop" /\ ~LoopEnds /\ ~LoopStops
  /\ LET key == CacheKey(gridPoints[i + 1], run.business.id, QueryRadius)
     IN /\ getCachedResult(key) = NoResult
        /\ cache' = CacheAfterGet(key)
  /\ pc' = "query"
  /\ events' = Append(events, [kind |-> "query", point |-> i + 1])
  /\ missCount' = missCount + 1
  /\ UNCHANGED <<isStopRequested, run, gridPoints, i, optimalLocations, totalRequests,
                 cacheHits, totalPrimaryResults, totalFallbackResults, startTime,
                 result, now, foundLog, lastResult, processed, hitCount, stopCalls,
                 stoppedBefore, firstStopAt, stoppedAfter, callbackThrew>>
  /\ UNCHANGED <<adapterVars, adapterGhosts, batchPromises, competitorMap>>

\* The adapter returns for grid point i: a result assembled from the directory's
\* answers is cached, the error result is not.
QueryReturn ==
  /\ pc = "query"
  /\ \E res \in Outcomes :
       /\ now' = now + QUERY_MS
       /\ cache' = IF res = ErrorResult THEN cache
                   ELSE setCachedResult(cache,
                          CacheKey(gridPoints[i + 1], run.business.id, QueryRadius),
                          res, now')
       /\ AfterPoint(res, FALSE)
  /\ UNCHANGED <<missCount, hitCount, stopCalls, stoppedBefore, firstStopAt,
                 stoppedAfter>>
  /\ UNCHANGED <<adapterVars, adapterGhosts, batchPromises, competitorMap>>

\* await this.delay(optimalLocations.length > 10 ? 50 : 100), after every fifth point
DelayDone ==
  /\ pc = "delay"
  /\ now' = now + (IF Len(optimalLocations) > FAST_AFTER THEN DELAY_FAST_MS
                   ELSE DELAY_SLOW_MS)
  /\ i' = NextPoint(i)
  /\ pc' = "loop"
  /\ UNCHANGED <<isStopRequested, run, gridPoints, optimalLocations, totalRequests,
                 cacheHits, totalPrimaryResults, totalFallbackResults, startTime,
                 result, cache>>
  /\ UNCHANGED ghostVars
  /\ UNCHANGED <<adapterVars, adapterGhosts, batchPromises, competitorMap>>

\* Lines 157-193: the loop is left, at its end or on the stop flag, and the
\* result is built and returned.
Finish ==
  /\ pc = "loop" /\ (LoopEnds \/ LoopStops)
  /\ LET sorted == SortByScore(optimalLocations)
         topLocations == Take(sorted, TOP_N)
         searchEfficiency ==
           IF totalRequests > 0
           THEN (IF totalPrimaryResults + totalFallbackResults = 0 THEN NaN
                 ELSE RoundPercent(totalPrimaryResults,
                                   totalPrimaryResults + totalFallbackResults))
           ELSE 0
     IN /\ optimalLocations' = sorted
        /\ result' =
             [bestLocations |-> topLocations,
              allPoints |-> sorted,
              analysisRadius |-> run.analysisRadius,
              targetRadius |-> run.targetRadius,
              totalCompetitorsFound |-> SumCompetitors(topLocations),
              searchStats |->
                [totalRequests |-> totalRequests,
                 cacheHits |-> cacheHits,
                 timeElapsed |-> now - startTime,
                 pointsAnalyzed |-> PointsAnalyzed,
                 locationsFound |-> Len(sorted),
                 primaryResults |-> totalPrimaryResults,
                 fallbackResults |-> totalFallbackResults,
                 searchEfficiency |-> searchEfficiency]]
  /\ pc' = "done"
  /\ UNCHANGED <<isStopRequested, run, gridPoints, i, totalRequests, cacheHits,
                 totalPrimaryResults, totalFallbackResults, startTime, cache, now>>
  /\ UNCHANGED ghostVars
  /\ UNCHANGED <<adapterVars, adapterGhosts, batchPromises, competitorMap>>

Next ==
  \/ Stop
  \/ Start
  \/ CacheHitPoint
  \/ IssueQuery
  \/ QueryReturn
  \/ DelayDone
  \/ Finish

vars == <<orchVars, cache, now, ghostVars, adapterVars, adapterGhosts,
         batchPromises, competitorMap>>

Spec == Init /\ [][Next]_vars


\* The orchestrator over the wider range of inputs.
StartWide == Begin(WideRunInputs)

NextWide ==
  \/ StartWide
  \/ Next

SpecWide == Init /\ [][NextWide]_vars

\* The runs followed to their end: the degenerate runs and the pharmacy searches
\* of the small ones.
StartLive ==
  Begin({ w \in WideRunInputs : w.gridDensity < 16 }
        \cup { r \in RunInputs : r.business.id = "pharmacy" })

NextLive ==
  \/ Stop
  \/ StartLive
  \/ CacheHitPoint
  \/ IssueQuery
  \/ QueryReturn
  \/ DelayDone
  \/ Finish

\* The await of the adapter call (line 98) ends: the run leaves "query", which
\* only QueryReturn does, and QueryReturn is enabled whenever the run awaits.
QueryAnswered == pc = "query" /\ pc' \in {"loop", "delay"}

\* The run makes progress: its synchronous stretches run to their end, every
\* directory query returns and every timer fires.  stop() is the caller's and
\* may never come.
SpecLive ==
  /\ Init /\ [][NextLive]_vars
  /\ WF_vars(CacheHitPoint)
  /\ WF_vars(IssueQuery)
  /\ WF_pc(QueryAnswered)
  /\ WF_vars(DelayDone)
  /\ WF_vars(Finish)

(***************************************************************************)
(* The grid generators on their own                                        *)
(***************************************************************************)
\* The calls explored: two centers, radii of -1 km, 0, 8 m, 500 m, 1 km and
\* 3 km, densities of 1 to 6, either generator.
GridInputs ==
  [ center : { [lat |-> 5000, lng |-> 5000], [lat |-> 9000, lng |-> 4000] },
    radius : {-1000, 0, 8, 500, 1000, 3000},
    density : 1..6,
    generator : {"grid", "hexagonal"} ]

\* The arguments of a call of a generator.
InitGrid ==
  /\ InitLoop
  /\ InitAdapterVars
  /\ maps = "ready"
  /\ run \in GridInputs

\* The generator is called: gridPoints is the list it returns.
GenerateGrid ==
  /\ pc = "idle"
  /\ gridPoints' =
       IF run.generator = "grid"
       THEN generateGridPoints(run.center, run.radius, run.density)
       ELSE generateHexagonalPoints(run.center, run.radius, run.density)
  /\ pc' = "grid"
  /\ UNCHANGED <<isStopRequested, run, i, optimalLocations, totalRequests, cacheHits,
                 totalPrimaryResults, totalFallbackResults, startTime, result,
                 cache, now>>
  /\ UNCHANGED ghostVars
  /\ UNCHANGED <<adapterVars, adapterGhosts, batchPromises, competitorMap>>

NextGrid == GenerateGrid

SpecGrid == InitGrid /\ [][NextGrid]_vars

(***************************************************************************)
(* The scoring of a location on its own                                    *)
(***************************************************************************)
\* The calls of analyzeLocationEnhanced explored: competitor results with the
\* nearest competitor at 0 m to 5 km or none at all (found, or found and all
\* too far away), up to six competitors, analysis radii of 1, 3 and 10 km.
ScoreInputs ==
  { [location |-> [lat |-> 5000, lng |-> 5000],
     competitorResult |->
       [competitors |-> <<>>, nearestDistance |-> c[1], totalCount |-> c[2],
        searchQuality |-> c[3], searchStats |-> NoStats],
     targetRadius |-> 1500, analysisRadius |-> r]
      : c \in ({0, 100, 450, 1000, 2400, 2999, 3000, 5000} \X (1..6)
                 \X {30, 50, 63, 75, 100})
               \cup ({Infinity} \X {0} \X {0, 40}),
        r \in {1000, 3000, 10000} }

InitScore ==
  /\ InitLoop
  /\ InitAdapterVars
  /\ maps = "ready"
  /\ run \in ScoreInputs

\* Lines 114-123: the location is analyzed and the search quality and
\* statistics of its competitor result attached.
ScoreLocation ==
  /\ pc = "idle"
  /\ result' =
       analyzeLocationEnhanced(run.location, run.competitorResult, run.targetRadius,
                               run.analysisRadius)
         @@ [searchQuality |-> run.competitorResult.searchQuality,
             searchStats |-> run.competitorResult.searchStats]
  /\ pc' = "scored"
  /\ UNCHANGED <<isStopRequested, run, gridPoints, i, optimalLocations, totalRequests,
                 cacheHits, totalPrimaryResults, totalFallbackResults, startTime,
                 cache, now>>
  /\ UNCHANGED ghostVars
  /\ UNCHANGED <<adapterVars, adapterGhosts, batchPromises, competitorMap>>

NextScore == ScoreLocation

SpecScore == InitScore /\ [][NextScore]_vars

(***************************************************************************)
(* CompetitorDetectionService: the search quality of a result              *)
(***************************************************************************)
\* The ends of findCompetitorsNearLocation explored: up to seven merged hits,
\* the first `far` of them beyond maxDistance, the last `rated` of them rated,
\* tagged by one to three strategies, with the counts of the raw results of
\* the primary and of the fallback phases.
QualityInputs ==
  LET tags == <<Method("place_type", "pharmacy"), Method("text", "pharmacy"),
                Method("extended", "health")>>
      hit(k, n, far, rated, u) ==
        Tagged(Place(k, {"pharmacy"}, {"pharmacy"},
                     [lat |-> 5000 + (IF k <= far THEN 12000 ELSE 100 * k),
                      lng |-> 5000],
                     IF k > n - rated THEN 45 ELSE 0),
               tags[((k - 1) % u) + 1])
      input(n, far, rated, u, counts) ==
        [location |-> [lat |-> 5000, lng |-> 5000],
         hits |-> [k \in 1..n |-> hit(k, n, far, rated, u)],
         stats |-> [primaryResults |-> counts[1] * n + counts[2],
                    fallbackResults |-> counts[3] * n + counts[4],
                    totalSearches |-> 3, searchMethods |-> tags]]
  IN { input(c[1], c[2], c[3], c[4], c[5]) :
         c \in { d \in (0..7) \X (0..1) \X {0, 1, 2, 5, 6} \X (1..3)
                        \X {<<1, 0, 0, 0>>, <<1, 2, 0, 1>>, <<0, 1, 1, 0>>,
                            <<0, 0, 1, 0>>, <<1, 0, 3, 0>>} :
                  d[2] <= d[1] /\ d[3] <= d[1] } }

InitQuality ==
  /\ InitLoop
  /\ InitAdapterVars
  /\ maps = "ready"
  /\ run \in QualityInputs

\* Lines 359-383: the competitors are processed and the result is assembled.
ReturnResult ==
  /\ pc = "idle"
  /\ result' = AssembleResult(run.hits, run.location,
                              getBusinessConfig("pharmacy").maxDistance, run.stats)
  /\ pc' = "assembled"
  /\ UNCHANGED <<isStopRequested, run, gridPoints, i, optimalLocations, totalRequests,
                 cacheHits, totalPrimaryResults, totalFallbackResults, startTime,
                 cache, now>>
  /\ UNCHANGED ghostVars
  /\ UNCHANGED <<adapterVars, adapterGhosts, batchPromises, competitorMap>>

\* Lines 385-399: the call ends through its catch block.
ReturnError ==
  /\ pc = "idle"
  /\ result' = ErrorResult
  /\ pc' = "failed"
  /\ UNCHANGED <<isStopRequested, run, gridPoints, i, optimalLocations, totalRequests,
                 cacheHits, totalPrimaryResults, totalFallbackResults, startTime,
                 cache, now>>
  /\ UNCHANGED ghostVars
  /\ UNCHANGED <<adapterVars, adapterGhosts, batchPromises, competitorMap>>

NextQuality == ReturnResult \/ ReturnError

SpecQuality == InitQuality /\ [][NextQuality]_vars

(***************************************************************************)
(* OptimalLocationSearch.batchFindCompetitors                              *)
(***************************************************************************)
BATCH_SIZE == 5

\* Math.round(lat * 1000) / 1000: a thousandth of a degree, in metres.
BATCH_CELL == 111

\* The calls of batchFindCompetitors explored: the hexagonal points of two
\* rings, 250 m apart (a cache cell each) and 20 m apart (one cache cell).
BatchInputs ==
  { [points |-> generateHexagonalPoints([lat |-> 5000, lng |-> 5000], radius, 4),
     business |-> "pharmacy", searchRadius |-> radius] : radius \in {40, 500} }

InitBatch ==
  /\ InitLoop
  /\ InitAdapterVars
  /\ maps = "ready"
  /\ run \in BatchInputs

RestOf(points, from) == SubSeq(points, from + 1, Len(points))

\* points.slice(i, i + BATCH_SIZE)
BatchOf(points, from) == SubSeq(points, from + 1, Min(from + BATCH_SIZE, Len(points)))

\* CompetitorCache.getCacheKey
getCacheKey(point) ==
  <<(2 * point.lat + BATCH_CELL) \div (2 * BATCH_CELL),
    (2 * point.lng + BATCH_CELL) \div (2 * BATCH_CELL)>>

\* Lines 126-146: the loop condition holds and the batch is mapped to its
\* promises; each callback runs to its first await, so that a point found in
\* the cache is settled at once and every other point has its query started.
\* The first batch follows the reset() of the caller (line 251).
StartBatch ==
  /\ pc \in {"idle", "loop"}
  /\ i < Len(run.points)
  /\ pc = "loop" => ~isStopRequested
  /\ LET known == IF pc = "idle" THEN <<>> ELSE cache
         batch == BatchOf(run.points, i)
         cached(n) == getCacheKey(batch[n]) \in DOMAIN known
         hits == Cardinality({ n \in 1..Len(batch) : cached(n) })
     IN /\ batchPromises' =
             [n \in 1..Len(batch) |->
                [point |-> batch[n], queried |-> ~cached(n), settled |-> cached(n),
                 competitors |-> IF cached(n) THEN known[getCacheKey(batch[n])]
                                 ELSE <<>>]]
        /\ cache' = known
        /\ cacheHits' = (IF pc = "idle" THEN 0 ELSE cacheHits) + hits
        /\ totalRequests' = (IF pc = "idle" THEN 0 ELSE totalRequests)
                              + (Len(batch) - hits)
  /\ isStopRequested' = IF pc = "idle" THEN FALSE ELSE isStopRequested
  /\ pc' = "query"
  /\ UNCHANGED <<run, gridPoints, i, optimalLocations, totalPrimaryResults,
                 totalFallbackResults, startTime, result, now, competitorMap>>
  /\ UNCHANGED ghostVars
  /\ UNCHANGED <<adapterVars, adapterGhosts>>

\* Lines 138-144: the query of one point of the batch completes, in any order:
\* with a competitor near the point, which is cached, or with an exception,
\* which leaves the point with no competitor.
QueryCompletes ==
  /\ pc = "query"
  /\ \E n \in 1..Len(batchPromises), thrown \in BOOLEAN :
       LET point == batchPromises[n].point
           competitors == IF thrown THEN <<>> ELSE <<[id |-> 0, location |-> point]>>
       IN /\ ~batchPromises[n].settled
          /\ batchPromises' = [batchPromises EXCEPT ![n].settled = TRUE,
                                                    ![n].competitors = competitors]
          /\ cache' = IF thrown THEN cache
                      ELSE (getCacheKey(point) :> competitors) @@ cache
  /\ UNCHANGED <<pc, isStopRequested, run, gridPoints, i, optimalLocations,
                 totalRequests, cacheHits, totalPrimaryResults, totalFallbackResults,
                 startTime, result, now, competitorMap>>
  /\ UNCHANGED ghostVars
  /\ UNCHANGED <<adapterVars, adapterGhosts>>

\* Lines 148-158: Promise.all is settled; the results of the batch are merged
\* in the order of the batch, progress is reported and the delay begins.
MergeBatch ==
  /\ pc = "query"
  /\ \A n \in 1..Len(batchPromises) : batchPromises[n].settled
  /\ LET key(n) == <<batchPromises[n].point.lat, batchPromises[n].point.lng>>
         keys == { key(n) : n \in 1..Len(batchPromises) }
         last(k) == CHOOSE n \in 1..Len(batchPromises) :
                      /\ key(n) = k
                      /\ \A m \in 1..Len(batchPromises) : key(m) = k => m <= n
     IN competitorMap' = [k \in DOMAIN competitorMap \cup keys |->
                      IF k \in keys THEN batchPromises[last(k)].competitors
                      ELSE competitorMap[k]]
  /\ events' = Append(events,
                      [kind |-> "progress", point |-> i + Len(batchPromises),
                       progress |-> Min(100, RoundPercent(i + Len(batchPromises),
                                                          Len(run.points))),
                       found |-> Cardinality(DOMAIN competitorMap')])
  /\ pc' = "delay"
  /\ UNCHANGED <<isStopRequested, run, gridPoints, i, optimalLocations,
                 totalRequests, cacheHits, totalPrimaryResults, totalFallbackResults,
                 startTime, result, cache, now, batchPromises>>
  /\ UNCHANGED <<foundLog, lastResult, processed, missCount, hitCount, stopCalls,
                 stoppedBefore, firstStopAt, stoppedAfter, callbackThrew>>
  /\ UNCHANGED <<adapterVars, adapterGhosts>>

\* await new Promise(resolve => setTimeout(resolve, 100)), then i += BATCH_SIZE
BatchDelayDone ==
  /\ pc = "delay"
  /\ i' = i + BATCH_SIZE
  /\ pc' = "loop"
  /\ UNCHANGED <<isStopRequested, run, gridPoints, optimalLocations, totalRequests,
                 cacheHits, totalPrimaryResults, totalFallbackResults, startTime,
                 result, cache, now, batchPromises, competitorMap>>
  /\ UNCHANGED ghostVars
  /\ UNCHANGED <<adapterVars, adapterGhosts>>

\* The loop ends, at the end of the points or on the stop flag: return results
ReturnResults ==
  /\ pc = "loop"
  /\ i >= Len(run.points) \/ isStopRequested
  /\ result' = competitorMap
  /\ pc' = "done"
  /\ UNCHANGED <<isStopRequested, run, gridPoints, i, optimalLocations, totalRequests,
                 cacheHits, totalPrimaryResults, totalFallbackResults, startTime,
                 cache, now, batchPromises, competitorMap>>
  /\ UNCHANGED ghostVars
  /\ UNCHANGED <<adapterVars, adapterGhosts>>

NextBatch ==
  \/ StartBatch
  \/ QueryCompletes
  \/ MergeBatch
  \/ BatchDelayDone
  \/ ReturnResults
  \/ Stop

SpecBatch == InitBatch /\ [][NextBatch]_vars

(***************************************************************************)
(* analysisService.analyzeLocation: the success probability                *)
(***************************************************************************)
DEMOGRAPHIC_SCORE == 70
LOCATION_SCORE == 80

\* competitors.filter((c, index, self) => index === self.findIndex(...)):
\* the first record of each place_id.
RECURSIVE Deduplicate(_)
Deduplicate(competitors) ==
  IF competitors = <<>> THEN <<>>
  ELSE LET front == Deduplicate(SubSeq(competitors, 1, Len(competitors) - 1))
           last == competitors[Len(competitors)]
       IN IF \E k \in 1..Len(front) : front[k].place_id = last.place_id
          THEN front ELSE Append(front, last)

\* Math.min(...competitorDistances), of a list that is not empty
RECURSIVE MinOf(_)
MinOf(distances) ==
  IF Len(distances) = 1 THEN distances[1]
  ELSE Min(distances[1], MinOf(Tail(distances)))

\* Math.max(0, 50 - nearestCompetitorDistance * 10), in hundredths of a point
ProximityPenalty(nearestCompetitorDistance) == Max(0, 5000 - nearestCompetitorDistance)

DensityPenaltyUncapped(totalCompetitors) == totalCompetitors * 800

\* Math.min(40, totalCompetitors * 8), in hundredths of a point
DensityPenalty(totalCompetitors) == Min(4000, totalCompetitors * 800)

\* Lines 152-238 of analyzeLocation, from the competitors the searches
\* collected (each with its distance to the location) to the result; the
\* competition score is in hundredths of a point, the distance in metres.
analyzeLocation(competitors, radius) ==
  LET uniqueCompetitors == Deduplicate(competitors)
      competitorDistances ==
        [k \in 1..Len(uniqueCompetitors) |-> uniqueCompetitors[k].distance]
      nearestCompetitorDistance ==
        IF Len(competitorDistances) > 0 THEN MinOf(competitorDistances) ELSE radius
      totalCompetitors == Len(uniqueCompetitors)
      competitionScore ==
        IF totalCompetitors > 0
        THEN Max(0, 10000 - ProximityPenalty(nearestCompetitorDistance)
                      - DensityPenalty(totalCompetitors))
        ELSE 10000
      successProbability ==
        RoundMilli(competitionScore * 5 + DEMOGRAPHIC_SCORE * 300
                   + LOCATION_SCORE * 200)
  IN [successProbability |-> successProbability,
      competitionScore |-> competitionScore,
      demographicScore |-> DEMOGRAPHIC_SCORE,
      locationScore |-> LOCATION_SCORE,
      totalCompetitors |-> totalCompetitors,
      nearestCompetitorDistance |-> nearestCompetitorDistance]

\* The calls explored: none to six places, the nearest at 0 m to 8 km and the
\* others 500 m apart behind it, in either order, the first of them possibly
\* returned by two searches; radii of 3 and 5 km.
AnalysisInputs ==
  LET places(n, d, nearestFirst) ==
        [k \in 1..n |->
           [place_id |-> k,
            distance |-> d + 500 * (IF nearestFirst THEN k - 1 ELSE n - k)]]
      lists == { places(n, d, o) \o (IF dup /\ n > 0 THEN <<places(n, d, o)[1]>>
                                      ELSE <<>>)
                   : n \in 0..6, d \in {0, 300, 1000, 4990, 5000, 8000},
                     o \in BOOLEAN, dup \in BOOLEAN }
  IN [ competitors : lists, radius : {3000, 5000} ]

InitAnalysis ==
  /\ InitLoop
  /\ InitAdapterVars
  /\ maps = "ready"
  /\ run \in AnalysisInputs

AnalyzeLocation ==
  /\ pc = "idle"
  /\ result' = analyzeLocation(run.competitors, run.radius)
  /\ pc' = "analyzed"
  /\ UNCHANGED <<isStopRequested, run, gridPoints, i, optimalLocations, totalRequests,
                 cacheHits, totalPrimaryResults, totalFallbackResults, startTime,
                 cache, now>>
  /\ UNCHANGED ghostVars
  /\ UNCHANGED <<adapterVars, adapterGhosts, batchPromises, competitorMap>>

NextAnalysis == AnalyzeLocation

SpecAnalysis == InitAnalysis /\ [][NextAnalysis]_vars

(***************************************************************************)
(* CompetitorDetectionService: validation and merging                      *)
(***************************************************************************)
\* String.prototype.includes between the words of the model: a word includes
\* itself, and "drugstore" includes "drug".
Includes(word, part) == word = part \/ (word = "drugstore" /\ part = "drug")

\* name.includes(text)
NameIncludes(place, text) == \E w \in place.name : Includes(w, text)

\* types.some(type => type.includes(text))
TypeIncludes(place, text) == \E t \in place.types : Includes(t, text)

\* exclude.replace('_', ' '): the first underscore becomes a space.
ReplaceUnderscore(x) ==
  CASE x = "veterinary_care" -> "veterinary care"
    [] x = "gas_station" -> "gas station"
    [] x = "grocery_or_supermarket" -> "grocery or_supermarket"
    [] x = "night_club" -> "night club"
    [] x = "car_repair" -> "car repair"
    [] x = "car_dealer" -> "car dealer"
    [] OTHER -> x

\* exclusions.some(x => types.includes(x) || name.includes(x.replace('_', ' ')))
Excluded(place, exclusions) ==
  \E x \in exclusions : x \in place.types \/ NameIncludes(place, ReplaceUnderscore(x))

\* config.searchTerms.includes('pharmacy')
IsPharmacyConfig(cfg) == "pharmacy" \in SeqToSet(cfg.searchTerms)

pharmacyKeywords ==
  {"pharmacy", "drugstore", "saydaliyya", "dawa", "medicine", "medical", "health",
   "drug", "pharmaceutical", "chemist", "apothecary"}

strongExclusions ==
  {"hospital", "clinic", "doctor", "dental", "veterinary_care", "bank", "restaurant",
   "hotel", "school", "church", "mosque", "gas_station"}

KeepAll(results, cfg) == results

\* filterPharmacyResults
filterPharmacyResults(results, cfg) ==
  IF ~IsPharmacyConfig(cfg) THEN results
  ELSE SelectSeq(results, LAMBDA r :
         /\ \E keyword \in pharmacyKeywords :
              NameIncludes(r, keyword) \/ TypeIncludes(r, keyword)
         /\ ~Excluded(r, strongExclusions))

pharmacyIndicators ==
  {"pharmacy", "drugstore", "saydaliyya", "dawa", "medicine", "medical", "health",
   "drug", "pharmaceutical", "chemist"}

definitelyNotPharmacy ==
  {"hospital", "clinic", "doctor", "dental", "veterinary_care", "bank", "restaurant",
   "hotel", "school", "church", "mosque"}

universalExcludes == {"atm", "bank", "school", "church", "cemetery"}

\* isValidCompetitor (every place of the model has a place_id and a name)
isValidCompetitor(place, cfg) ==
  IF IsPharmacyConfig(cfg)
  THEN IF Excluded(place, definitelyNotPharmacy) THEN FALSE
       ELSE IF \E indicator \in pharmacyIndicators :
                 NameIncludes(place, indicator) \/ TypeIncludes(place, indicator)
            THEN TRUE
       ELSE IF place.searchMethod.kind = "extended" THEN FALSE
       ELSE TRUE
  ELSE /\ ~Excluded(place, cfg.excludeTypes)
       /\ place.types \cap universalExcludes = {}

\* resultMap.has(place_id)
MapHas(resultMap, id) == \E k \in 1..Len(resultMap) : resultMap[k].place_id = id

\* resultMap.set(result.place_id, result): a new key goes to the end, the value
\* of an existing key is replaced where it stands.
MapSet(resultMap, hit) ==
  IF MapHas(resultMap, hit.place_id)
  THEN [k \in 1..Len(resultMap) |->
          IF resultMap[k].place_id = hit.place_id THEN hit ELSE resultMap[k]]
  ELSE Append(resultMap, hit)

IsAddedWhenValid(hit, resultMap, cfg) == isValidCompetitor(hit, cfg)

\* if (this.isValidCompetitor(result, config) && !resultMap.has(hit.place_id))
IsAdded(hit, resultMap, cfg) ==
  isValidCompetitor(hit, cfg) /\ ~MapHas(resultMap, hit.place_id)

\* addValidResults
RECURSIVE addValidResults(_, _, _)
addValidResults(results, resultMap, cfg) ==
  IF results = <<>> THEN resultMap
  ELSE addValidResults(Tail(results),
                       IF IsAdded(results[1], resultMap, cfg)
                       THEN MapSet(resultMap, results[1]) ELSE resultMap,
                       cfg)

(***************************************************************************)
(* CompetitorDetectionService: the directory and the strategy calls        *)
(***************************************************************************)
\* The point the adapter is asked about.
AdapterCenter == [lat |-> 5000, lng |-> 5000]

CallInput(location, businessType, radiusKm) ==
  [location |-> location, businessType |-> businessType, radiusKm |-> radiusKm]

\* The calls explored strategy by strategy: one point, the default radius.
SearchInputs ==
  { CallInput(AdapterCenter, businessType, DEFAULT_RADIUS) :
      businessType \in {"pharmacy", "restaurant", "laundry"} }

\* The calls explored over time: a pharmacy search at the point, and calls that
\* differ from it by two metres (the same cache key), by the cell of the
\* point, by the business type and by the radius.
CacheInputs ==
  { CallInput(AdapterCenter, "pharmacy", DEFAULT_RADIUS),
    CallInput([lat |-> 5002, lng |-> 5000], "pharmacy", DEFAULT_RADIUS),
    CallInput([lat |-> 5000, lng |-> 5100], "pharmacy", DEFAULT_RADIUS),
    CallInput(AdapterCenter, "laundry", DEFAULT_RADIUS),
    CallInput(AdapterCenter, "pharmacy", 5000) }

\* The places of the directory: a pharmacy and a shop whose name says
\* apothecary, both within reach of the grid search, a shop without any keyword,
\* a hospital pharmacy that is also a bank, and a drugstore 12 km away.
Places ==
  LET at(dlat, dlng) == [lat |-> AdapterCenter.lat + dlat,
                         lng |-> AdapterCenter.lng + dlng]
  IN { Place(1, {"pharmacy"}, {"pharmacy", "store"}, at(400, 0), 45),
       Place(2, {"apothecary"}, {"store"}, at(0, 900), 0),
       Place(3, {"corner shop"}, {"store"}, at(-2000, -1500), 40),
       Place(4, {"hospital", "pharmacy"}, {"hospital", "bank"}, at(0, -2000), 0),
       Place(5, {"drugstore"}, {"drugstore"}, at(12000, 0), 0) }

\* What the directory hands to the callback of nearbySearch or textSearch: a
\* status that is not OK, or OK with up to MaxHits distinct places.
Responses ==
  { [status |-> "ERROR", results |-> <<>>] }
  \cup
  { [status |-> "OK", results |-> s] :
      s \in { t \in UNION { [1..n -> Places] : n \in 1..MaxHits } :
                \A a, b \in DOMAIN t : t[a] = t[b] => a = b } }

\* The calls explored in a neighbourhood dense with pharmacies.
PhaseInputs ==
  { CallInput([lat |-> 50000, lng |-> 50000], businessType, DEFAULT_RADIUS) :
      businessType \in {"pharmacy", "laundry"} }

\* What the directory hands to the callbacks there: a status that is not OK, or
\* OK with one pharmacy or with three.
PhaseResponses ==
  LET shop(id, dlat) ==
        Place(id, {"pharmacy"}, {"pharmacy"}, [lat |-> 50000 + dlat, lng |-> 50000], 40)
  IN { [status |-> "ERROR", results |-> <<>>],
       [status |-> "OK", results |-> <<shop(11, 400)>>],
       [status |-> "OK", results |-> <<shop(11, 400), shop(12, 900), shop(13, 1500)>>] }

\* performPlacesSearch / performTextSearch: resolve([]) when the Maps places
\* library is not available or the status is not OK, the results otherwise.
performSearch(resp) ==
  IF maps = "ready" /\ resp.status = "OK" THEN resp.results ELSE <<>>

\* searchByPlaceType
searchByPlaceType(location, placeType, radiusKm, resp) == performSearch(resp)

\* searchByText: the hits with coordinates within radiusKm of the location
searchByText(location, query, radiusKm, resp) ==
  SelectSeq(performSearch(resp), LAMBDA r :
    /\ extractCoordinates(r) # NoCoords
    /\ calculateDistance(location, extractCoordinates(r)) <= radiusKm)

\* const extendedRadius = Math.min(radiusKm * 1.5, 15)
ExtendedRadius(radiusKm) == Min((3 * radiusKm) \div 2, EXTENDED_MAX)

\* performGridSearch: the n-th point of the 4 x 4 grid, row by row.
GridPoint(center, radiusKm, n) ==
  LET off(k) == ((2 * k - GRID_SIZE + 1) * radiusKm * EARTH_M_PER_DEG)
                  \div (2 * GRID_SIZE * GRID_M_PER_DEG)
  IN [lat |-> center.lat + off((n - 1) \div GRID_SIZE),
      lng |-> center.lng + off((n - 1) % GRID_SIZE)]

\* results.push(...gridResults): the model keeps the length of results and the
\* first occurrence of each place, which is all addValidResults can tell.
RECURSIVE GridPush(_, _)
GridPush(acc, hits) ==
  IF hits = <<>> THEN acc
  ELSE GridPush([acc EXCEPT !.length = @ + 1,
                            !.first = IF MapHas(@, hits[1].place_id) THEN @
                                      ELSE Append(@, hits[1])],
                Tail(hits))

\* The directory around the location of the call.
Directory == IF call \in PhaseInputs THEN PhaseResponses ELSE Responses

\* The directory's answers a strategy call can get.
ResponsesNow == { resp \in Directory : maps # "ready" => resp.status # "OK" }

\* performGridSearch: what `results` can be after the text searches of the first
\* n grid points (failed: one of them got no OK answer).
RECURSIVE GridRuns(_, _, _)
GridRuns(center, radiusKm, n) ==
  IF n = 0 THEN { [length |-> 0, first |-> <<>>, failed |-> FALSE] }
  ELSE { [GridPush(acc, searchByText(GridPoint(center, radiusKm, n), "pharmacy",
                                     radiusKm \div GRID_SIZE, resp))
            EXCEPT !.failed = @ \/ resp.status # "OK"] :
           acc \in GridRuns(center, radiusKm, n - 1), resp \in ResponsesNow }

\* The tag each place was first seen under: map extended by the places of
\* results not yet in it.
RECURSIVE FirstSeen(_, _, _)
FirstSeen(map, results, method) ==
  IF results = <<>> THEN map
  ELSE FirstSeen(IF results[1].place_id \in DOMAIN map THEN map
                 ELSE (results[1].place_id :> method) @@ map,
                 Tail(results), method)

NeedsFallbackBelow(cfg, businessType, size) ==
  cfg.requiresMultiPass /\ size < MULTIPASS_BELOW

\* if (config.requiresMultiPass && (allResults.size < 3 || businessType === 'pharmacy'))
NeedsFallback(cfg, businessType, size) ==
  cfg.requiresMultiPass /\ (size < MULTIPASS_BELOW \/ businessType = "pharmacy")

NeedsGridWhatever(businessType, size) == businessType = "pharmacy"

\* if (businessType === 'pharmacy' && allResults.size < 2), inside the block of
\* the fallback phase
NeedsGrid(businessType, size) == businessType = "pharmacy" /\ size < GRID_BELOW

\* The strategy call awaited after the one at `step`, given allResults.size, or
\* NoStep when the phases are over.
StepAfter(size) ==
  LET cfg == getBusinessConfig(call.businessType)
      more(list) == step.idx < Len(Take(list, MaxTerms))
      next == [phase |-> step.phase, idx |-> step.idx + 1]
      first(phase) == [phase |-> phase, idx |-> 1]
  IN CASE step.phase = "place_type" ->
            IF more(cfg.placeTypes) THEN next ELSE first("text")
       [] step.phase = "text" ->
            IF more(cfg.searchTerms) THEN next
            ELSE IF NeedsFallback(cfg, call.businessType, size)
                 THEN first("extended")
            ELSE NoStep
       [] step.phase = "extended" ->
            IF more(cfg.broadPlaceTypes) THEN next ELSE first("fallback")
       [] step.phase = "fallback" ->
            IF more(cfg.fallbackSearchTerms) THEN next
            ELSE IF NeedsGrid(call.businessType, size)
                 THEN first("grid")
            ELSE NoStep
       [] step.phase = "grid" -> NoStep

\* After a strategy call: the next one is awaited, or (lines 359-383) the
\* result is assembled, cached and returned.
Continue(results, stats) ==
  LET cfg == getBusinessConfig(call.businessType)
      key == CacheKey(call.location, call.businessType, call.radiusKm)
      result2 == NewObject(nextRef,
                   AssembleResult(results, call.location, cfg.maxDistance, stats))
  IN /\ allResults' = results
     /\ searchStats' = stats
     /\ step' = StepAfter(Len(results))
     /\ IF StepAfter(Len(results)) # NoStep
        THEN /\ apc' = "search"
             /\ UNCHANGED <<returned, nextRef, cache, endedBy, completed>>
        ELSE /\ apc' = "idle"
             /\ returned' = result2
             /\ nextRef' = nextRef + 1
             /\ cache' = setCachedResult(cache, key, result2, now')
             /\ endedBy' = "search"
             /\ completed' = (key :> [at |-> now', object |-> result2]) @@ completed

\* The catch block, had it stored the result it returns.
ThrownCached ==
  /\ apc' = "idle"
  /\ step' = NoStep
  /\ returned' = NewObject(nextRef, ErrorResult)
  /\ nextRef' = nextRef + 1
  /\ endedBy' = "error"
  /\ failed' = TRUE
  /\ cache' = setCachedResult(cache,
                              CacheKey(call.location, call.businessType, call.radiusKm),
                              returned', now)
  /\ UNCHANGED <<now, allResults, searchStats, gridResults, completed,
                 firstFound, firstAdmitted, overlap>>

\* Lines 385-399: an exception of the try block ends the call with the empty
\* result; nothing is cached.
Thrown ==
  /\ apc' = "idle"
  /\ step' = NoStep
  /\ returned' = NewObject(nextRef, ErrorResult)
  /\ nextRef' = nextRef + 1
  /\ endedBy' = "error"
  /\ failed' = TRUE
  /\ UNCHANGED <<cache, now, allResults, searchStats, gridResults, completed,
                 firstFound, firstAdmitted, overlap>>

\* The adapter with an empty cache; the Maps script may not be loaded yet, or be
\* loaded without its places library.
InitAdapter ==
  /\ InitOrchestrator
  /\ InitAdapterVars
  /\ maps \in {"undefined", "no_places", "ready"}

\* Lines 250-265: the call up to its first await. A fresh cache entry is
\* returned at once; otherwise the try block begins.
Call(inputs) ==
  /\ apc = "idle"
  /\ \E input \in inputs :
       LET cacheKey == CacheKey(input.location, input.businessType, input.radiusKm)
           cached == getCachedResult(cacheKey)
       IN /\ call' = input
          /\ lookup' = IF cacheKey \in DOMAIN cache
                       THEN [found |-> TRUE, age |-> now - cache[cacheKey].timestamp]
                       ELSE [found |-> FALSE, age |-> 0]
          /\ cache' = CacheAfterGet(cacheKey)
          /\ IF cached # NoResult
             THEN /\ apc' = "idle"
                  /\ returned' = cached
                  /\ endedBy' = "cache"
                  /\ step' = NoStep
                  /\ UNCHANGED <<allResults, searchStats, gridResults>>
             ELSE /\ apc' = "search"
                  /\ returned' = NoResult
                  /\ endedBy' = "none"
                  /\ step' = [phase |-> "place_type", idx |-> 1]
                  /\ allResults' = <<>>
                  /\ searchStats' = NoStats
                  /\ gridResults' = NoGridResults
  /\ calls' = calls + 1
  /\ issued' = 0 /\ failed' = FALSE
  /\ firstFound' = <<>> /\ firstAdmitted' = <<>> /\ overlap' = FALSE
  /\ completed' = [k \in { x \in DOMAIN completed : now - completed[x].at < CACHE_TTL }
                    |-> completed[k]]
  /\ UNCHANGED <<nextRef, maps, now, ticks>>
  /\ UNCHANGED <<orchVars, ghostVars, batchPromises, competitorMap>>

\* A call of the strategy-by-strategy exploration.
BeginSearch == calls < MaxSearches /\ Call(SearchInputs \cup PhaseInputs)

\* One strategy call of phase 1 or 2 and what the phase does with its hits.
\* With `google` undefined, new google.maps.LatLng(...) throws before the search
\* is attempted.
StrategyCall(phase, list, textSearch, fallbackPhase) ==
  /\ apc = "search" /\ step.phase = phase
  /\ issued' = issued + 1
  /\ IF maps = "undefined" THEN Thrown
     ELSE \E resp \in ResponsesNow :
          LET cfg == getBusinessConfig(call.businessType)
              method == Method(phase, list[step.idx])
              results ==
                IF textSearch
                THEN searchByText(call.location, list[step.idx], call.radiusKm, resp)
                ELSE searchByPlaceType(call.location, list[step.idx],
                       IF fallbackPhase THEN ExtendedRadius(call.radiusKm)
                       ELSE call.radiusKm, resp)
              filtered == IF fallbackPhase THEN filterPharmacyResults(results, cfg)
                          ELSE results
              tagged == [k \in 1..Len(filtered) |-> Tagged(filtered[k], method)]
              stats ==
                [primaryResults |-> searchStats.primaryResults
                                    + (IF fallbackPhase THEN 0 ELSE Len(filtered)),
                 fallbackResults |-> searchStats.fallbackResults
                                     + (IF fallbackPhase THEN Len(filtered) ELSE 0),
                 totalSearches |-> searchStats.totalSearches + 1,
                 searchMethods |-> Append(searchStats.searchMethods, method)]
          IN /\ failed' = (failed \/ resp.status # "OK")
             /\ now' = now + (IF maps = "ready" THEN QUERY_MS ELSE 0)
             /\ firstFound' = FirstSeen(firstFound, results, method)
             /\ firstAdmitted' =
                  FirstSeen(firstAdmitted,
                            SelectSeq(tagged, LAMBDA r : isValidCompetitor(r, cfg)),
                            method)
             /\ overlap' = (overlap \/ \E k \in 1..Len(tagged) :
                                          MapHas(allResults, tagged[k].place_id))
             /\ gridResults' = gridResults
             /\ Continue(addValidResults(tagged, allResults, cfg), stats)
  /\ UNCHANGED <<call, maps, calls, ticks, lookup>>
  /\ UNCHANGED <<orchVars, ghostVars, batchPromises, competitorMap>>

\* Lines 269-282
PrimaryTypeSearch ==
  StrategyCall("place_type", getBusinessConfig(call.businessType).placeTypes,
               FALSE, FALSE)

\* Lines 285-298
PrimaryTextSearch ==
  StrategyCall("text", getBusinessConfig(call.businessType).searchTerms, TRUE, FALSE)

\* Lines 311-324
ExtendedSearch ==
  StrategyCall("extended", getBusinessConfig(call.businessType).broadPlaceTypes,
               FALSE, TRUE)

\* Lines 327-341
FallbackTextSearch ==
  StrategyCall("fallback", getBusinessConfig(call.businessType).fallbackSearchTerms,
               TRUE, TRUE)

\* Lines 344-354: performGridSearch, its sixteen text searches and delays, and
\* what the phase does with the hits.
GridSearch ==
  /\ apc = "search" /\ step.phase = "grid"
  /\ issued' = issued + GRID_SIZE * GRID_SIZE
  /\ IF maps = "undefined" THEN Thrown
     ELSE \E results \in GridRuns(call.location, call.radiusKm, GRID_SIZE * GRID_SIZE) :
          LET cfg == getBusinessConfig(call.businessType)
              method == Method("grid_search", "")
              tagged == [k \in 1..Len(results.first) |-> Tagged(results.first[k], method)]
              stats ==
                [searchStats EXCEPT !.fallbackResults = @ + results.length,
                                    !.totalSearches = @ + 1,
                                    !.searchMethods = Append(@, method)]
          IN /\ failed' = (failed \/ results.failed)
             /\ now' = now + GRID_SIZE * GRID_SIZE
                              * ((IF maps = "ready" THEN QUERY_MS ELSE 0) + GRID_DELAY_MS)
             /\ firstFound' = FirstSeen(firstFound, results.first, method)
             /\ firstAdmitted' =
                  FirstSeen(firstAdmitted,
                            SelectSeq(tagged, LAMBDA r : isValidCompetitor(r, cfg)),
                            method)
             /\ overlap' = (overlap \/ \E k \in 1..Len(tagged) :
                                          MapHas(allResults, tagged[k].place_id))
             /\ gridResults' = [length |-> results.length, first |-> results.first]
             /\ Continue(addValidResults(tagged, allResults, cfg), stats)
  /\ UNCHANGED <<call, maps, calls, ticks, lookup>>
  /\ UNCHANGED <<orchVars, ghostVars, batchPromises, competitorMap>>

NextAdapter ==
  \/ BeginSearch
  \/ PrimaryTypeSearch
  \/ PrimaryTextSearch
  \/ ExtendedSearch
  \/ FallbackTextSearch
  \/ GridSearch

SpecAdapter == InitAdapter /\ [][NextAdapter]_vars

(***************************************************************************)
(* CompetitorDetectionService: calls over time                             *)
(***************************************************************************)
\* A call of the exploration over time.
findCompetitorsNearLocation == calls < MaxCalls /\ Call(CacheInputs)

\* Lines 256-399 as one step, by their outcome. With `google` undefined the
\* first strategy call throws; without the places library every strategy call
\* resolves to no hit, at once.
SearchCompletes ==
  /\ apc = "search"
  /\ IF maps = "undefined"
     THEN /\ Thrown
          /\ issued' = 1
     ELSE \E res \in SearchResults(call.businessType, call.location) :
          LET key == CacheKey(call.location, call.businessType, call.radiusKm)
              result2 == NewObject(nextRef, res)
          IN /\ maps = "no_places" => res.searchStats.primaryResults = 0
             /\ now' = now + (IF maps = "ready"
                              THEN res.searchStats.totalSearches * QUERY_MS ELSE 0)
             /\ apc' = "idle"
             /\ step' = NoStep
             /\ returned' = result2
             /\ nextRef' = nextRef + 1
             /\ cache' = setCachedResult(cache, key, result2, now')
             /\ endedBy' = "search"
             /\ issued' = res.searchStats.totalSearches
             /\ failed' = (maps # "ready")
             /\ completed' = (key :> [at |-> now', object |-> result2]) @@ completed
             /\ UNCHANGED <<allResults, searchStats, gridResults, firstFound,
                            firstAdmitted, overlap>>
  /\ UNCHANGED <<call, maps, calls, ticks, lookup>>
  /\ UNCHANGED <<orchVars, ghostVars, batchPromises, competitorMap>>

\* Time passes between two calls.
TickSteps == {1, CACHE_TTL - 1}

Tick ==
  /\ apc = "idle" /\ ticks < MaxTicks /\ 0 < calls /\ calls < MaxCalls
  /\ \E d \in TickSteps : now' = now + d
  /\ ticks' = ticks + 1
  /\ UNCHANGED <<cache, adapterVars, calls, issued, failed, endedBy, lookup,
                 firstFound, firstAdmitted, overlap, completed>>
  /\ UNCHANGED <<orchVars, ghostVars, batchPromises, competitorMap>>

\* The Maps script finishes loading between two calls, with or without its
\* places library.
LoadMaps ==
  /\ apc = "idle" /\ maps = "undefined" /\ calls < MaxCalls
  /\ maps' \in {"no_places", "ready"}
  /\ UNCHANGED <<apc, call, step, allResults, searchStats, gridResults, returned,
                 nextRef, cache, now, adapterGhosts>>
  /\ UNCHANGED <<orchVars, ghostVars, batchPromises, competitorMap>>

NextCache ==
  \/ findCompetitorsNearLocation
  \/ SearchCompletes
  \/ Tick
  \/ LoadMaps

SpecCache == InitAdapter /\ [][NextCache]_vars

(***************************************************************************)
(* Properties of findCompetitorsNearLocation                               *)
(***************************************************************************)
\* The cache key of the call being made by a step.
CallKey == CacheKey(call'.location, call'.businessType, call'.radiusKm)

\* C5: a call made less than the TTL after a call with the same key completed
\* its search returns at once, without a strategy call to the directory, the
\* very object that call returned.
C5_CacheIdempotence ==
  [][calls' = calls + 1 =>
       ((CallKey \in DOMAIN completed /\ now - completed[CallKey].at < CACHE_TTL)
          => /\ apc' = "idle" /\ step' = NoStep
             /\ endedBy' = "cache" /\ issued' = 0
             /\ returned' = completed[CallKey].object
             /\ returned'.ref = completed[CallKey].object.ref)]_vars

\* A second call answered from the cache some time after a search that found
\* competitors, for the point the search was made for.
C5_Witness ==
  /\ apc = "idle" /\ calls = 2 /\ endedBy = "cache" /\ issued = 0
  /\ lookup # NoLookup /\ lookup.found /\ lookup.age > 0
  /\ call.location = AdapterCenter
  /\ returned.value.totalCount > 0

\* C6: the lookup of an entry older than the TTL returns nothing, deletes the
\* entry and lets the phases run; the lookup of an entry younger than the TTL
\* returns its object and leaves the cache, timestamps included, as it was.
C6_ExpiryAndFreshness ==
  [][calls' = calls + 1 =>
       (CallKey \in DOMAIN cache =>
          LET age == now - cache[CallKey].timestamp
          IN /\ age > CACHE_TTL =>
                  /\ CallKey \notin DOMAIN cache'
                  /\ returned' = NoResult
                  /\ apc' = "search" /\ step' = [phase |-> "place_type", idx |-> 1]
             /\ age < CACHE_TTL =>
                  /\ returned' = cache[CallKey].data
                  /\ apc' = "idle"
                  /\ cache' = cache)]_vars

\* A second call that found an entry older than the TTL and searched again.
C6_Witness ==
  /\ calls = 2 /\ endedBy = "search" /\ apc = "idle"
  /\ lookup # NoLookup /\ lookup.found /\ lookup.age > CACHE_TTL
  /\ Cardinality(DOMAIN cache) = 1

\* The competitors a finished search returned.
Competitors == returned.value.competitors

UniqueIds(records) ==
  \A a, b \in 1..Len(records) : records[a].place_id = records[b].place_id => a = b

\* C7 as stated: the competitor list of a search holds each place_id once, and
\* each record has the tag of the first strategy that returned the place.
C7_FirstFoundKept ==
  (apc = "idle" /\ endedBy = "search") =>
    /\ UniqueIds(Competitors)
    /\ \A k \in 1..Len(Competitors) :
         Competitors[k].searchMethod = firstFound[Competitors[k].place_id]

\* C7, amended: each record has the tag of the first strategy whose hit for the
\* place was merged, that is passed the relevance filter of its phase and the
\* validation; this holds of the merged set all along the search.
C7_FirstMergedKept ==
  /\ UniqueIds(allResults)
  /\ apc = "search" =>
       \A k \in 1..Len(allResults) :
         allResults[k].searchMethod = firstAdmitted[allResults[k].place_id]
  /\ (apc = "idle" /\ endedBy = "search") =>
       /\ UniqueIds(Competitors)
       /\ \A k \in 1..Len(Competitors) :
            Competitors[k].searchMethod = firstAdmitted[Competitors[k].place_id]

\* A finished search with two competitors, one of them returned again by a later
\* strategy, the other kept from a later strategy than the first that returned it.
C7_Witness ==
  /\ apc = "idle" /\ endedBy = "search" /\ overlap
  /\ Len(Competitors) = 2
  /\ \E k \in 1..Len(Competitors) :
       firstFound[Competitors[k].place_id] # Competitors[k].searchMethod

\* The strategy calls the phases of the current call make at least.
PlannedCalls ==
  LET cfg == getBusinessConfig(call.businessType)
  IN Len(PrimaryMethods(cfg))
     + (IF cfg.requiresMultiPass /\ call.businessType = "pharmacy"
        THEN Len(FallbackMethods(cfg)) ELSE 0)

\* C8: a call in which a strategy call failed (it threw, the status was not OK,
\* or the directory was unavailable) still made every strategy call of its
\* phases and returned the result of its search.
C8_FailedCallNeverAborts ==
  (apc = "idle" /\ calls > 0 /\ endedBy # "cache" /\ failed) =>
    /\ endedBy = "search"
    /\ issued >= PlannedCalls
    /\ returned.value.searchStats.totalSearches >= PlannedCalls

(***************************************************************************)
(* Properties of findOptimalLocations                                      *)
(***************************************************************************)
\* The 1-based grid index of a pooled location.
PointIndex(loc) == CHOOSE k \in 1..Len(gridPoints) : gridPoints[k] = loc.location

\* The grid point with 1-based index k is in the candidate pool.
InPool(k) ==
  \E j \in 1..Len(optimalLocations) : optimalLocations[j].location = gridPoints[k]

EventsOf(kind) == { k \in 1..Len(events) : events[k].kind = kind }

\* The opportunity score the run computes for the last processed point.
LastScore ==
  analyzeLocationEnhanced(gridPoints[processed], lastResult, run.targetRadius,
                          run.analysisRadius).opportunityScore

\* C1: a run cancelled after k of its N grid points (k < N) reports
\* searchStats.pointsAnalyzed = k, the number of points processed.
C1_PointsAnalyzedIsProcessed ==
  (pc = "done" /\ processed < Len(gridPoints))
    => result.searchStats.pointsAnalyzed = processed

\* C2: when stop() arrives while the directory query of grid point i is in
\* flight (or in the delay that follows point i), point i is processed to its
\* end, with its discovery and progress callbacks, no query or callback happens
\* for a later point, and the result holds only locations of points 1..i.
C2_CooperativeStop ==
  firstStopAt > 0 =>
    /\ \A k \in 1..Len(events) : events[k].point <= firstStopAt
    /\ pc = "done" =>
         /\ processed = firstStopAt
         /\ \E k \in EventsOf("progress") : events[k].point = firstStopAt
         /\ (\E k \in EventsOf("found") : events[k].point = firstStopAt)
              <=> /\ isLocationOptimalEnhanced(lastResult, run.business, run.targetRadius)
                  /\ LastScore >= MinOpportunityScore(run.business)
         /\ \A k \in 1..Len(result.allPoints) :
              PointIndex(result.allPoints[k]) <= firstStopAt
         /\ \A k \in 1..Len(result.bestLocations) :
              PointIndex(result.bestLocations[k]) <= firstStopAt

\* A run of four points stopped during the query of the second, which was accepted.
C2_Witness ==
  /\ pc = "done" /\ firstStopAt = 2 /\ Len(gridPoints) = 4
  /\ \E k \in EventsOf("found") : events[k].point = 2

\* C3: stop() only sets the flag and a repeated stop() changes nothing; a stop()
\* before the run is undone on entry, so that the run processes every grid
\* point, however many stop() calls came during a run it ends after the point
\* of the first, and a stop() after the run leaves the returned result alone.
C3_StopIdempotent ==
  /\ [](pc = "done" =>
          processed = (IF firstStopAt = 0 THEN Len(gridPoints) ELSE firstStopAt))
  /\ [][stopCalls' = stopCalls + 1 =>
          /\ isStopRequested'
          /\ UNCHANGED <<pc, run, gridPoints, i, optimalLocations, totalRequests,
                         cacheHits, totalPrimaryResults, totalFallbackResults,
                         startTime, result, cache, now>>]_vars
  /\ [][pc = "done" => result' = result]_vars

\* A run that was stopped before it began, twice, processed its whole grid and
\* was stopped again after it returned.
C3_Witness ==
  /\ pc = "done" /\ stoppedBefore /\ stoppedAfter /\ firstStopAt = 0
  /\ stopCalls >= 2
  /\ Len(gridPoints) > 1 /\ processed = Len(gridPoints)

\* C4: at the end of a run totalRequests is the number of adapter calls that
\* missed the cache and cacheHits the number answered from the cache.
C4_CountersMatchCacheUse ==
  pc = "done" =>
    /\ result.searchStats.totalRequests = missCount
    /\ result.searchStats.cacheHits = hitCount

\* The admission test as the claim words it, for a minimum distance.
AdmissionTest(res, score, minDistance) ==
  /\ res.nearestDistance * 10 >= 8 * minDistance
  /\ res.searchQuality >= (IF run.business.id = "pharmacy" THEN 30 ELSE 50)
  /\ score >= (IF run.business.id = "pharmacy" THEN 30 ELSE 40)

C10_DiscoveryMatchesPool ==
  /\ pc # "done" => foundLog = optimalLocations
  /\ pc = "done" =>
       /\ Len(foundLog) = Len(result.allPoints)
       /\ SeqToSet(foundLog) = SeqToSet(result.allPoints)
  /\ Cardinality(EventsOf("found")) = Len(foundLog)
  /\ \A a, b \in EventsOf("found") : events[a].point = events[b].point => a = b
  /\ \A f \in EventsOf("found") : \A q \in EventsOf("query") :
       events[q].point > events[f].point => q > f
  /\ \A f \in EventsOf("found") : InPool(events[f].point)

\* A finished run that delivered two locations and rejected a point.
C10_Witness ==
  pc = "done" /\ Len(foundLog) >= 2 /\ processed > Len(foundLog)

(***************************************************************************)
(* Progress and discovery callbacks                                        *)
(***************************************************************************)
\* The calls of onProgress, in order.
ProgressEvents == SelectSeq(events, LAMBDA e : e.kind = "progress")

\* What holds of the calls of onProgress whatever the size of the grid: one
\* call per processed point, pointsProcessed counting 1, 2, ..., an integer
\* percentage that never decreases, the size of the pool.
ProgressPerPoint ==
  LET P == ProgressEvents
  IN /\ Len(P) = missCount + hitCount - (IF pc = "query" THEN 1 ELSE 0)
     /\ \A k \in 1..Len(P) :
          /\ P[k].point = k
          /\ P[k].progress \in 0..100
          /\ k > 1 => P[k - 1].progress <= P[k].progress
     /\ Len(P) > 0 => P[Len(P)].found = Len(optimalLocations)

\* C11 as stated: onProgress is called exactly once after each processed grid
\* point, with pointsProcessed 1, 2, ..., k, percentComplete an integer of
\* 0..100 that never decreases and acceptedCount the size of the pool, and
\* percentComplete is 100 exactly when the last grid point has been processed.
C11_HundredOnlyAtLastPoint ==
  /\ ProgressPerPoint
  /\ \A k \in 1..Len(ProgressEvents) :
       ProgressEvents[k].progress = 100 <=> k = Len(gridPoints)

\* C11, amended: percentComplete is 100 x pointsProcessed / total rounded to
\* the nearest integer (half up): it is 100 once the last grid point has been
\* processed, and before that only when less than half a percent of the grid
\* remains.
C11_ProgressIsRoundedRatio ==
  /\ ProgressPerPoint
  /\ \A k \in 1..Len(ProgressEvents) :
       LET n == Len(gridPoints)
           percent == ProgressEvents[k].progress
       IN /\ 2 * n * percent <= 200 * k + n
          /\ 200 * k + n < 2 * n * (percent + 1)
          /\ k = n => percent = 100
          /\ percent = 100 => 200 * (n - k) <= n

\* A finished run over a grid of at least 200 points, all processed, some
\* accepted and some rejected.
C11_Witness ==
  /\ pc = "done" /\ Len(gridPoints) >= 200 /\ processed = Len(gridPoints)
  /\ Len(optimalLocations) > 0 /\ Len(optimalLocations) < processed

\* C12: the discovery callback of the location accepted at grid point i comes
\* after a progress callback with pointsProcessed >= i.
C12_DiscoveryAfterProgress ==
  \A f \in EventsOf("found") :
    \E q \in EventsOf("progress") : q < f /\ events[q].point >= events[f].point

(***************************************************************************)
(* The result of a run                                                     *)
(***************************************************************************)
\* The number of occurrences of x in the sequence s.
Count(s, x) == Cardinality({ k \in 1..Len(s) : s[k] = x })

\* C13: in the result of every run, completed or cancelled, bestLocations is
\* in order of non-increasing opportunityScore and has min(20, size of the pool)
\* locations, all of them of the pool, no location of the pool left out of it
\* has a higher opportunityScore than one of its members, and allPoints holds
\* exactly the pool (the locations pushed, which are those delivered to
\* onLocationFound).
C13_RankedResult ==
  pc = "done" =>
    LET best == result.bestLocations
        pool == foundLog
    IN /\ \A k \in 1..(Len(best) - 1) :
            best[k].opportunityScore >= best[k + 1].opportunityScore
       /\ Len(best) = Min(20, Len(pool))
       /\ \A k \in 1..Len(best) : Count(best, best[k]) <= Count(pool, best[k])
       /\ \A k \in 1..Len(pool) :
            Count(best, pool[k]) < Count(pool, pool[k])
              => \A j \in 1..Len(best) :
                   pool[k].opportunityScore <= best[j].opportunityScore
       /\ Len(result.allPoints) = Len(pool)
       /\ \A k \in 1..Len(pool) :
            Count(result.allPoints, pool[k]) = Count(pool, pool[k])

\* A cancelled run with more than 20 locations in its pool, found in another
\* order than that of their scores.
C13_Witness ==
  /\ pc = "done" /\ firstStopAt > 0 /\ Len(foundLog) > 20
  /\ Len(result.bestLocations) = 20
  /\ \E k \in 1..(Len(foundLog) - 1) :
       foundLog[k].opportunityScore < foundLog[k + 1].opportunityScore

(***************************************************************************)
(* A query point without any directory hit                                 *)
(***************************************************************************)
\* The target radii a run can be given, 0 among them.
TargetRadii == {0, 500, 1500}

\* C14: a call in which no strategy call returned any hit yields a result with
\* nearestDistance = +infinity and searchQuality = 0, which the admission test
\* of the orchestrator rejects for every business profile and target radius.
C14_NoHitIsRejected ==
  (apc = "idle" /\ endedBy \in {"search", "error"} /\ firstFound = <<>>) =>
    /\ returned.value.nearestDistance = Infinity
    /\ returned.value.searchQuality = 0
    /\ returned.value.competitors = <<>>
    /\ \A b \in Businesses : \A t \in TargetRadii :
         ~isLocationOptimalEnhanced(returned.value, b, t)

\* A pharmacy search that went through every phase, the grid search included,
\* with the Maps script loaded, and never had a hit.
C14_Witness ==
  /\ apc = "idle" /\ endedBy = "search" /\ firstFound = <<>> /\ maps = "ready"
  /\ call.businessType = "pharmacy"
  /\ issued > GRID_SIZE * GRID_SIZE

(***************************************************************************)
(* Grid generation                                                         *)
(***************************************************************************)
\* 1 + 6 x (1 + ... + rings)
RingBound(density) == 1 + 3 * Rings(density) * (Rings(density) + 1)

\* C15: for every center, radius > 0 and density >= 1, each point a generator
\* returns is within radius of the center, and the rectangular generator
\* returns at most density x density points, the ring generator at most
\* 1 + 6 x (1 + ... + ceil(density / 2)).
C15_GridWithinDisc ==
  (pc = "grid" /\ run.radius > 0 /\ run.density >= 1) =>
    /\ \A k \in 1..Len(gridPoints) :
         calculateDistance(run.center, gridPoints[k]) <= run.radius
    /\ Len(gridPoints) <= (IF run.generator = "grid" THEN run.density * run.density
                           ELSE RingBound(run.density))

\* A lattice and rings that lost points beyond the radius and kept others.
C15_Witness ==
  /\ pc = "grid" /\ run.radius > 0 /\ Len(gridPoints) > 4
  /\ Len(gridPoints) < (IF run.generator = "grid" THEN run.density * run.density
                        ELSE RingBound(run.density))

\* C16: the rectangular generator called with a radius of 0 or less, and any
\* density >= 1, returns the list of one point, the center.
C16_DegenerateRadiusGivesCenter ==
  (pc = "grid" /\ run.generator = "grid" /\ run.radius <= 0 /\ run.density >= 1)
    => gridPoints = <<run.center>>

(***************************************************************************)
(* Invalid input and exceptions                                            *)
(***************************************************************************)
\* C17: a run started with a grid density of 0 or less is rejected with a
\* configuration error: findOptimalLocations does not return a result for it.
C17_NonPositiveDensityRejected ==
  pc = "done" => run.gridDensity >= 1

\* C18: an exception raised inside the caller's discovery callback propagates
\* to the caller of findOptimalLocations: a run in which onLocationFound threw
\* returns no result.
C18_CallbackExceptionPropagates ==
  pc = "done" => ~callbackThrew

(***************************************************************************)
(* Scores                                                                  *)
(***************************************************************************)
\* round(0.4 x distanceScore + 0.3 x (100 - marketSaturation)
\*       + 0.2 x searchQuality + 0.1 x coverageScore), with
\* distanceScore = min(100, nearest / 3 x 100) and
\* coverageScore = min(100, nearest / (analysisRadius / 1.5) x 100):
\* the scores in thousandths, lengths in metres.
WeightedScore(nearest, count, quality, analysisRadius) ==
  LET distanceScore == IF nearest >= 3000 THEN 100000 ELSE (nearest * 100) \div 3
      coverageScore == IF nearest = Infinity \/ nearest * 3 >= analysisRadius * 2
                       THEN 100000
                       ELSE (nearest * 150000) \div analysisRadius
      saturation == MarketSaturationMilli([lat |-> 0, lng |-> 0], count, analysisRadius)
  IN RoundMilli((4 * distanceScore + 3 * (100000 - saturation) + 2000 * quality
                 + coverageScore) \div 10)

\* C19: the opportunityScore of a location is the rounded weighted sum of the
\* scores of its own nearest distance, competitor count and search quality and
\* of the analysis radius, an integer of 0..100; a nearest competitor at 2.4 km,
\* 3 competitors, quality 75 and an analysis radius of 10 km give 79.
C19_OpportunityScoreFormula ==
  pc = "scored" =>
    /\ result.opportunityScore =
         WeightedScore(result.nearestCompetitorDistance, result.totalCompetitorsInRadius,
                       result.searchQuality, run.analysisRadius)
    /\ result.opportunityScore \in 0..100
    /\ (/\ result.nearestCompetitorDistance = 2400
        /\ result.totalCompetitorsInRadius = 3
        /\ result.searchQuality = 75
        /\ run.analysisRadius = 10000) => result.opportunityScore = 79

\* The location of the example has been scored.
C19_Witness ==
  /\ pc = "scored"
  /\ result.nearestCompetitorDistance = 2400 /\ result.totalCompetitorsInRadius = 3
  /\ result.searchQuality = 75 /\ run.analysisRadius = 10000
  /\ result.opportunityScore = 79

\* The competition score of the claim, in hundredths of a point: 100 without a
\* competitor, otherwise
\* max(0, 100 - max(0, 50 - 10 x nearest) - min(40, 8 x total)).
ClaimedCompetitionScore(total, nearest) ==
  IF total = 0 THEN 10000
  ELSE LET proximity == IF nearest >= 5000 THEN 0 ELSE 5000 - nearest
           density == IF 8 * total >= 40 THEN 4000 ELSE 800 * total
       IN IF proximity + density >= 10000 THEN 0 ELSE 10000 - proximity - density

\* C20: successProbability is 0.5 x competitionScore + 0.3 x 70 + 0.2 x 80
\* rounded half up, with the competition score of the distinct competitors
\* found and of the nearest of them; a nearest competitor at 0.3 km and 4
\* competitors give a competition score of 21 and a success probability of 48.
C20_SuccessProbability ==
  pc = "analyzed" =>
    LET ids == { run.competitors[k].place_id : k \in 1..Len(run.competitors) }
        total == Cardinality(ids)
        nearest == CHOOSE d \in { run.competitors[k].distance
                                    : k \in 1..Len(run.competitors) } \cup {Infinity} :
                     \A k \in 1..Len(run.competitors) : d <= run.competitors[k].distance
        score == ClaimedCompetitionScore(total, nearest)
        weighted == 5 * score + 300 * 70 + 200 * 80
        p == result.successProbability
    IN /\ result.competitionScore = score
       /\ 1000 * p - 500 <= weighted /\ weighted < 1000 * p + 500
       /\ (total = 4 /\ nearest = 300) => (score = 2100 /\ p = 48)

\* The example: four competitors, one of them returned twice, the nearest at
\* 300 m.
C20_Witness ==
  /\ pc = "analyzed" /\ Len(run.competitors) = 5
  /\ result.totalCompetitors = 4 /\ result.nearestCompetitorDistance = 300
  /\ result.competitionScore = 2100 /\ result.successProbability = 48

(***************************************************************************)
(* Termination                                                             *)
(***************************************************************************)
\* C21: a run goes from idle to running to its end: when every directory
\* query returns, a run that began returns a result; the grid points are
\* visited in the order of their generation, each at most once; and a run that
\* has returned never runs again.
C21_RunTerminates ==
  /\ (pc = "loop") ~> (pc = "done" /\ result # NoResult)
  /\ [][/\ pc = "idle" => pc' \in {"idle", "loop"}
        /\ pc = "done" => (pc' = "done" /\ result' = result)
        /\ pc' = "idle" => pc = "idle"
        /\ i' \in {i, i + 1}
        /\ processed' \in {processed, processed + 1}
        /\ processed' = processed + 1 => (lastResult' # NoResult /\ processed' = i + 1)]_vars
  /\ [](processed <= Len(gridPoints))

\* A run over several grid points has returned after visiting them all, some
\* answered by the directory and some from the cache.
C21_Witness ==
  /\ pc = "done" /\ result # NoResult /\ processed = Len(gridPoints)
  /\ Len(gridPoints) > 1 /\ hitCount > 0 /\ missCount > 0

(***************************************************************************)
(* Properties of the search phases                                         *)
(***************************************************************************)
\* The step with which the primary phase of the current call ends: its last
\* text search has been merged and no exception ended the call.
PrimaryEnds ==
  /\ apc = "search" /\ step.phase = "text"
  /\ endedBy' # "error"
  /\ step' # [phase |-> "text", idx |-> step.idx + 1]

\* The first query of the fallback phase is the next one.
FallbackBegins == step' = [phase |-> "extended", idx |-> 1]

\* C22 as stated: the fallback phase follows the primary phase only for a
\* multi-pass profile whose primary phase merged fewer than 3 unique hits.
C22_FallbackOnlyBelowThree ==
  [][(PrimaryEnds /\ FallbackBegins) =>
       /\ getBusinessConfig(call.businessType).requiresMultiPass
       /\ Len(allResults') < 3]_vars

\* C22, amended: the fallback phase follows the primary phase exactly when the
\* profile is multi-pass and either the primary phase merged fewer than 3 unique
\* hits or the business type is pharmacy; a profile that is not multi-pass gets
\* no fallback query however few hits it has.
C22_FallbackForMultiPass ==
  [][PrimaryEnds =>
       (FallbackBegins <=>
          /\ getBusinessConfig(call.businessType).requiresMultiPass
          /\ (Len(allResults') < 3 \/ call.businessType = "pharmacy"))]_vars

\* A pharmacy search is in its fallback phase with 3 unique hits merged by the
\* primary phase.
C22_Witness ==
  /\ apc = "search" /\ step = [phase |-> "extended", idx |-> 1]
  /\ call.businessType = "pharmacy"
  /\ Len(allResults) >= 3

\* C23: the 4 x 4 grid search is the step after the last query of the fallback
\* phase and no other, and it is made only for a multi-pass profile with fewer
\* than 2 unique hits merged by the primary and the fallback phase.
C23_GridOnlyBelowTwo ==
  /\ [][(step' # step /\ step' = [phase |-> "grid", idx |-> 1]) =>
          /\ apc = "search" /\ step.phase = "fallback"
          /\ getBusinessConfig(call.businessType).requiresMultiPass
          /\ Len(allResults') < 2]_vars
  /\ []((apc = "search" /\ step.phase = "grid") =>
          /\ getBusinessConfig(call.businessType).requiresMultiPass
          /\ Len(allResults) < 2
          /\ searchStats.searchMethods =
               PrimaryMethods(getBusinessConfig(call.businessType))
               \o FallbackMethods(getBusinessConfig(call.businessType)))

\* A pharmacy search is about to make its grid search, with one hit merged by
\* the phases before.
C23_Witness ==
  /\ apc = "search" /\ step.phase = "grid" /\ Len(allResults) = 1
  /\ searchStats.fallbackResults > 0

(***************************************************************************)
(* Properties of the validation                                            *)
(***************************************************************************)
\* The name or a type of the place matches a keyword of the allow-list.
HasKeyword(place) ==
  \E keyword \in pharmacyKeywords :
    NameIncludes(place, keyword) \/ TypeIncludes(place, keyword)

\* C24: in a search for the multi-pass profile, a hit merged under the tag of an
\* extended or a fallback search matches a keyword of the allow-list; a place
\* first returned by a primary search that matches no keyword and no exclusion
\* is merged; and no merged hit matches an exclusion, whatever found it.
C24_AsymmetricValidation ==
  (call # NoCall /\ getBusinessConfig(call.businessType).requiresMultiPass) =>
    /\ \A k \in 1..Len(allResults) :
         /\ allResults[k].searchMethod.kind \in {"extended", "fallback"} =>
              HasKeyword(allResults[k])
         /\ ~Excluded(allResults[k], definitelyNotPharmacy)
    /\ \A place \in Places :
         (/\ call \in SearchInputs
          /\ place.place_id \in DOMAIN firstFound
          /\ firstFound[place.place_id].kind \in {"place_type", "text"}
          /\ ~HasKeyword(place) /\ ~Excluded(place, definitelyNotPharmacy))
         => MapHas(allResults, place.place_id)

\* A pharmacy search has merged a place that matches no keyword from a primary
\* search, and has not merged a place first returned by a broad or a fallback
\* search.
C24_Witness ==
  /\ call # NoCall /\ call.businessType = "pharmacy"
  /\ \E k \in 1..Len(allResults) :
       /\ ~HasKeyword(allResults[k])
       /\ allResults[k].searchMethod.kind \in {"place_type", "text"}
  /\ \E id \in DOMAIN firstFound :
       /\ firstFound[id].kind \in {"extended", "fallback"}
       /\ ~MapHas(allResults, id)

(***************************************************************************)
(* Properties of the search quality                                        *)
(***************************************************************************)
\* The score the claim gives for a competitor list and the result counts.
ClaimedQuality(competitors, stats) ==
  LET n == Len(competitors)
      rated == Cardinality({ k \in 1..n : competitors[k].rating > 0 })
      methods == Cardinality({ competitors[k].searchMethod : k \in 1..n })
      all == stats.primaryResults + stats.fallbackResults
      sum == 40 + (IF n >= 1 THEN 20 ELSE 0) + (IF n > 2 THEN 15 ELSE 0)
                + (IF n > 5 THEN 10 ELSE 0) + Min(15, 3 * rated)
                + (IF methods > 1 THEN 5 ELSE 0) + (IF methods > 2 THEN 5 ELSE 0)
                - (IF 10 * stats.fallbackResults > 7 * all THEN 10 ELSE 0)
  IN Max(0, Min(100, sum))

\* C25 as stated: the search quality of every result is the clamped sum.
C25_QualityIsClampedSum ==
  pc \in {"assembled", "failed"} =>
    /\ result.searchQuality \in 0..100
    /\ result.searchQuality = ClaimedQuality(result.competitors, result.searchStats)

\* C25, amended: the search quality is a whole number from 0 to 100; it is the
\* clamped sum in the result of a search that merged at least one hit, and 0 in
\* the result of a search that merged none and in the result of the error path.
C25_QualityOfMergedHits ==
  /\ pc \in {"assembled", "failed"} => result.searchQuality \in 0..100
  /\ (pc = "assembled" /\ Len(run.hits) > 0) =>
       result.searchQuality = ClaimedQuality(result.competitors, result.searchStats)
  /\ (pc = "failed" \/ (pc = "assembled" /\ Len(run.hits) = 0)) =>
       result.searchQuality = 0

\* A result with six competitors, rated ones among them, found by three
\* strategies, most of the raw results being fallback results: the sum is
\* clamped, the penalty applied.
C25_Witness ==
  /\ pc = "assembled" /\ Len(result.competitors) > 5
  /\ 10 * result.searchStats.fallbackResults
       > 7 * (result.searchStats.primaryResults + result.searchStats.fallbackResults)
  /\ result.searchQuality = 100

(***************************************************************************)
(* Properties of the market saturation                                     *)
(***************************************************************************)
\* The expected densities of the business profiles (baseDensities, lines
\* 277-283), in competitors per 1000 km2.
ProfileDensities ==
  [pharmacy |-> 150, restaurant |-> 500, coffee_shop |-> 300,
   grocery_store |-> 100, gas_station |-> 80]

\* Math.min(100, totalCount / (PI * analysisRadius^2 * density) * 100), in
\* thousandths, for a given density.
SaturationOfDensity(density, totalCount, analysisRadius) ==
  LET expected == (((((analysisRadius * analysisRadius) \div 100) * density)
                      \div 10) \div PI_DEN) * PI_NUM
  IN IF totalCount = 0 THEN 0
     ELSE IF totalCount * 1000000 >= expected THEN 100000
     ELSE (totalCount * 100000000) \div (expected \div 1000)

\* C26: the market saturation of a scored location is the one computed from
\* the expected density of the profile of the run, whichever profile the run
\* is for (the scoring is handed the location, the competitor result and the
\* radii, and is the same call for every profile).
C26_SaturationFromProfileDensity ==
  pc = "scored" =>
    \A business \in DOMAIN ProfileDensities :
      result.marketSaturation =
        RoundMilli(SaturationOfDensity(ProfileDensities[business],
                                       run.competitorResult.totalCount,
                                       run.analysisRadius))

(***************************************************************************)
(* Properties of the batched search                                        *)
(***************************************************************************)
\* The promises whose directory query is in flight.
Pending(promises) ==
  { n \in 1..Len(promises) : promises[n].queried /\ ~promises[n].settled }

\* The key a point is merged under: `${point.lat},${point.lng}`.
MergeKey(point) == <<point.lat, point.lng>>

\* C27: a batch has at most 5 points, the points that follow those of the
\* batches before; a directory query is started only when no query is in
\* flight and every point of the batches before has been merged; and the
\* competitors a query returned are merged under the point that issued it, in
\* whatever order the queries of the batch completed.
C27_BatchesInSequence ==
  /\ [](/\ Len(batchPromises) <= BATCH_SIZE
        /\ pc = "query" =>
             /\ \A n \in 1..Len(batchPromises) :
                  batchPromises[n].point = run.points[i + n]
             /\ \A j \in 1..i : MergeKey(run.points[j]) \in DOMAIN competitorMap)
  /\ [][(Pending(batchPromises') \ Pending(batchPromises) # {}) =>
          /\ Pending(batchPromises) = {}
          /\ \A j \in 1..i' : MergeKey(run.points[j]) \in DOMAIN competitorMap]_vars
  /\ [][competitorMap' # competitorMap =>
          /\ Pending(batchPromises) = {}
          /\ \A n \in 1..Len(batchPromises) :
               batchPromises[n].queried =>
                 LET merged == competitorMap'[MergeKey(batchPromises[n].point)]
                 IN /\ merged = batchPromises[n].competitors
                    /\ \A c \in 1..Len(merged) :
                         merged[c].location = batchPromises[n].point]_vars

\* The second batch is in flight, the first one merged, and a query of the
\* batch has returned a competitor before the query of an earlier point of the
\* batch has completed.
C27_Witness ==
  /\ pc = "query" /\ i = BATCH_SIZE
  /\ Cardinality(DOMAIN competitorMap) = BATCH_SIZE
  /\ \E n, m \in 1..Len(batchPromises) :
       /\ n < m /\ n \in Pending(batchPromises)
       /\ batchPromises[m].queried /\ batchPromises[m].settled
       /\ batchPromises[m].competitors # <<>>

(***************************************************************************)
(* Properties of the admission of points without competitors               *)
(***************************************************************************)
\* C28: no location of the candidate pool comes from a competitor result with
\* an empty competitor list, that is with nearestDistance = +infinity.
C28_EmptyResultNeverPooled ==
  \A k \in 1..Len(optimalLocations) :
    /\ optimalLocations[k].competitors # <<>>
    /\ optimalLocations[k].nearestCompetitorDistance # Infinity

(***************************************************************************)
(* Properties of the search statistics                                     *)
(***************************************************************************)
\* C29: the search efficiency of the result of a run is a whole number from 0
\* to 100.
C29_EfficiencyIsPercentage ==
  pc = "done" => result.searchStats.searchEfficiency \in 0..100

(***************************************************************************)
(* Properties of the error path of findCompetitorsNearLocation             *)
(***************************************************************************)
\* The cache key of the call that was made last.
LastKey == CacheKey(call.location, call.businessType, call.radiusKm)

\* A step in which the call in progress ends through its catch block.
EndsByError == apc = "search" /\ apc' = "idle" /\ endedBy' = "error"

\* C30: a call that ends through its error path returns the empty result with
\* search quality 0 and leaves the cache as it was, without an entry for its
\* key; the next call with the same key finds no entry and begins the search
\* phases again.
C30_ErrorIsNotCached ==
  /\ [][EndsByError =>
          /\ returned'.value = ErrorResult
          /\ returned'.value.searchQuality = 0
          /\ cache' = cache
          /\ LastKey \notin DOMAIN cache']_vars
  /\ [][(calls' = calls + 1 /\ endedBy = "error" /\ CallKey = LastKey) =>
          /\ ~lookup'.found
          /\ returned' = NoResult
          /\ apc' = "search" /\ step' = [phase |-> "place_type", idx |-> 1]]_vars

\* A call has ended through its error path, its key has no entry, and the Maps
\* script has loaded since, so that another call can be made and can search.
C30_Witness ==
  /\ apc = "idle" /\ endedBy = "error" /\ calls = 1
  /\ returned.value = ErrorResult
  /\ LastKey \notin DOMAIN cache
  /\ maps = "ready"

====
